---- MODULE Spec2Model ----
(***************************************************************************)
(* State-machine model of the threat detection backend (python_backend):   *)
(* the ThreatDetector artifact life cycle (train / save / load), packet    *)
(* classification, and the HTTP handlers that start training runs and     *)
(* start or stop scanning.                                                 *)
(*                                                                         *)
(* Confidences and thresholds are Python floats in the source; they are    *)
(* modelled as integers in thousandths (0.7 is 700).                       *)
(***************************************************************************)
EXTENDS Integers, Sequences, FiniteSets, TLC

\* ------------------------------------------------------------------ bounds

\* Largest number of train_model calls in one behaviour.
MaxRuns == 2

\* Largest number of capture lines delivered in one behaviour.
MaxLines == 2

\* Largest number of threads start_email_processor creates in one behaviour.
MaxConsumers == 2

\* Largest number of e-mails waiting in email_queue.
MaxQueue == 2

\* Largest number of rows of an uploaded CSV file.
MaxRows == 2

\* ------------------------------------------------------- program constants

\* threat_detector.py:286  "if len(training_data) < 10"
MinSamples == 10
\* threat_detector.py:27   self.model_version = 1
InitialVersion == 1
\* threat_detector.py:31   THREAT_THRESHOLD default 0.7
DefaultThreshold == 700
\* threat_detector.py:495-499  severity cut points 0.9 / 0.8 / 0.7
CriticalAbove == 900
HighAbove == 800
MediumAbove == 700
\* threat_detector.py:385  confidence 0.5 of the untrained answer
UnknownConfidence == 500
\* app.py:503 and threat_detector.py:523  confidence > 0.9
LearnAbove == 900
\* network_monitor.py:25  self.buffer_size = 1000
buffer_size == 1000

\* self.threat_types (threat_detector.py:43)
threat_types ==
  <<"Normal", "Malware", "DDoS", "Intrusion", "Phishing", "Port_Scan", "Brute_Force">>

\* LabelEncoder.fit(self.threat_types) (threat_detector.py:42-44): classes_ is
\* the sorted list of the labels; the code of a label is its 0-based position.
label_classes ==
  <<"Brute_Force", "DDoS", "Intrusion", "Malware", "Normal", "Phishing", "Port_Scan">>

Labels == {threat_types[i] : i \in 1..Len(threat_types)}

\* label_encoder.transform of one known label: its code.
EncodeLabel(l) == (CHOOSE i \in 1..Len(label_classes) : label_classes[i] = l) - 1

\* label_encoder.inverse_transform of one code.
DecodeLabel(c) == label_classes[c + 1]

AllCodes == {EncodeLabel(l) : l \in Labels}

\* ------------------------------------------------------------ input spaces

\* Configured threat thresholds tried (the default, and one below the
\* severity table's lowest cut point).
Thresholds == {DefaultThreshold - 50, DefaultThreshold}

\* Probabilities a fitted model may report for its predicted class.
ConfLevels == {650, 700, 800, 900, 950}
\* ... and where classification overlaps training runs.
AppConfLevels == {700, 950}

\* Training batches.  n: number of samples; codes: the encoded labels present;
\* fault: where the pipeline raises for this batch
\*   "split"  train_test_split(stratify=y) raises (a label with one member)
\*   "encode" label_encoder.transform raises (a label outside the closed set)
\*   "fit"    RandomForestClassifier.fit raises
\*   "eval"   predict / classification_report raises
\*   "none"   nothing raises.
PairCodes == {EncodeLabel("Brute_Force"), EncodeLabel("DDoS")}

\* io: the write of save_model that raises for this run ("model", "scaler",
\*   "meta"), or "none".
MkBatch(n, cs, f, io) == [n |-> n, codes |-> cs, fault |-> f, io |-> io]

Batches ==
  {MkBatch(MinSamples - 1, PairCodes, "none", "none")}
  \cup {MkBatch(MinSamples, PairCodes, f, "none") :
          f \in {"none", "split", "encode", "fit", "eval"}}
  \cup {MkBatch(MinSamples, PairCodes, "none", io) :
          io \in {"model", "scaler", "meta"}}
  \cup {MkBatch(2 * MinSamples, AllCodes, "none", "none")}

\* The batches tried where training runs overlap each other and the workers.
AppBatches ==
  {MkBatch(MinSamples - 1, PairCodes, "none", "none"),
   MkBatch(MinSamples, PairCodes, "none", "none"),
   MkBatch(MinSamples, PairCodes, "fit", "none")}

NoBatch == MkBatch(0, {}, "none", "none")

\* Background training threads / request slots, and interface workers.
Trainers == {1, 2}
Workers == {"eth0"}

\* NetworkMonitor.interfaces (network_monitor.py:20-21): the default
\* NETWORK_INTERFACES; one monitor_interface thread per interface.
interfaces == {"eth0", "wlan0"}

\* The second monitor_interface thread an interface can have: the thread of
\* a later start_monitoring while the one of an earlier start is still
\* alive (network_monitor.py:64-70 creates a new Thread per interface at
\* each start).
Second(i) == IF i = "eth0" THEN "eth0#2" ELSE "wlan0#2"

\* The monitor_interface threads that can be alive at one time.
LoopIds == interfaces \cup {Second(i) : i \in interfaces}

\* The interface argument of the thread (network_monitor.py:65-66).
InterfaceOf(t) == CHOOSE i \in interfaces : t \in {i, Second(i)}

\* ---------------------------------------------------------------- objects

\* A scaler or model object: st is "none" (Python None), "new" (constructed,
\* not fitted) or "fitted"; run is the train_model call that constructed it
\* (st = "new") or whose data it was last fitted on (st = "fitted"); run 0 is
\* the training run of an earlier process whose artifact is on disk.
NoObj == [st |-> "none", run |-> 0, codes |-> {}]
NewObj(r) == [st |-> "new", run |-> r, codes |-> {}]
FittedObj(r, cs) == [st |-> "fitted", run |-> r, codes |-> cs]

PriorObj == FittedObj(0, PairCodes)

NoMeta == [exists |-> FALSE, version |-> 0, total |-> 0, history |-> <<>>]
PriorMeta ==
  [exists |-> TRUE, version |-> InitialVersion + 1, total |-> 2 * MinSamples,
   history |-> <<[samples |-> 2 * MinSamples, version |-> InitialVersion + 1]>>]

NoResult == [success |-> FALSE, samplesProcessed |-> 0, version |-> 0]

NoAnalysis ==
  [classification |-> "none", confidence |-> 0, isThreat |-> FALSE,
   threat |-> "none", severity |-> "none"]

VARIABLES
  \* ThreatDetector fields (threat_detector.py:22-31)
  model, scaler, is_trained, model_version, total_samples_trained,
  training_history, threat_threshold,
  \* the artifact files: model_path, scaler_path, metadata_path
  diskModel, diskScaler, diskMeta,
  \* system_status['isTraining'], system_status['modelTrained'] (app.py:46-57)
  isTraining, modelTrained,
  \* whether initialize_system has run (app.py:511)
  booted,
  \* NetworkMonitor.is_monitoring (network_monitor.py:19)
  is_monitoring,
  \* per training thread: position, its batch, the model_version it read at
  \* line 268, the artifact (memory and files) as it was when train_model was
  \* called, the value train_model returned, the number of the call
  pcT, batch, startVer, before, result, runId,
  \* per training thread: what the training_data argument of its
  \* train_model call is, and the number of rows the call has inserted
  \* into the store's training_data table
  given, saved_rows,
  \* number of train_model calls begun
  nruns,
  \* per interface worker: position in analyze_packet, the run of the scaler
  \* that produced features_scaled, the run of the model that produced
  \* prediction, the prediction (a label code), the returned analysis
  pcW, usedScaler, usedModel, prediction, analysis,
  \* NetworkMonitor.monitor_threads, the outcome of the last start_monitoring
  \* call, the position of the stop_monitoring call and the threads it has
  \* still to join
  monitor_threads, startResult, pcStop, toJoin,
  \* per interface: position of its monitor_interface thread, its capture
  \* process, the line read and the packet parsed from it
  pcL, proc, line, packet,
  \* NetworkMonitor.packet_buffer and the number of lines delivered so far
  packet_buffer, nlines,
  \* per interface, for the observation being handled: how often each
  \* collaborator was called (db.save_threat, db.create_alert,
  \* email_service.send_threat_alert, db.mark_alert_email_sent)
  calls,
  \* the store's tables threats, alerts and training_data, and the number
  \* of e-mails in EmailService.email_queue
  threats, alerts, training_data, email_queue,
  \* the environment: whether the store answers requests
  store,
  \* EmailService.is_configured_flag, EmailService.is_processing and, per
  \* thread started by start_email_processor, its position in process_emails
  is_configured_flag, is_processing, pcE,
  \* the file handed to process_csv_file and what the call gave
  csv_file, csv_result,
  \* system_status['isScanning'] (app.py:47)
  isScanning

detVars ==
  <<model, scaler, is_trained, model_version, total_samples_trained,
    training_history, threat_threshold>>
diskVars == <<diskModel, diskScaler, diskMeta>>
monVars == <<monitor_threads, startResult, pcStop, toJoin>>
loopVars == <<pcL, proc, line, packet, packet_buffer, nlines>>
loopVarsButPc == <<proc, line, packet, packet_buffer, nlines>>
sinkVars == <<calls, threats, alerts, training_data, email_queue>>
mailVars == <<is_configured_flag, is_processing, pcE>>
csvVars == <<csv_file, csv_result>>
scanVars == <<isScanning>>
envVars == <<store, mailVars, csvVars, scanVars>>
capVars == <<monVars, loopVars, sinkVars, envVars>>
appVars == <<isTraining, modelTrained, booted, is_monitoring, capVars>>
trainVars ==
  <<pcT, batch, startVer, before, result, runId, nruns, given, saved_rows>>
workVars == <<pcW, usedScaler, usedModel, prediction, analysis>>

vars == <<detVars, diskVars, appVars, trainVars, workVars>>

\* The artifact: the detector's fields and the three files.
Snapshot ==
  [model |-> model, scaler |-> scaler, is_trained |-> is_trained,
   model_version |-> model_version,
   total_samples_trained |-> total_samples_trained,
   training_history |-> training_history,
   diskModel |-> diskModel, diskScaler |-> diskScaler, diskMeta |-> diskMeta]

NoSnapshot ==
  [model |-> NoObj, scaler |-> NoObj, is_trained |-> FALSE,
   model_version |-> 0, total_samples_trained |-> 0,
   training_history |-> <<>>,
   diskModel |-> [exists |-> FALSE, obj |-> NoObj],
   diskScaler |-> [exists |-> FALSE, obj |-> NoObj], diskMeta |-> NoMeta]

\* ------------------------------------------------------- pure functions

\* The k-th smallest element of a set of label codes (model.classes_[k-1]).
ClassAt(cs, k) == CHOOSE c \in cs : Cardinality({d \in cs : d < c}) = k - 1

\* The guard without its is_trained test.
Untrained_ModelOnly(trained, m) == m.st = "none"

\* threat_detector.py:381  "if not self.is_trained or self.model is None"
Untrained(trained, m) == (~trained) \/ m.st = "none"

\* The threat decision with a non-strict comparison.
IsThreat_AtLeast(classification, confidence, threshold) ==
  classification # "Normal" /\ confidence >= threshold

\* threat_detector.py:406
\*   is_threat = classification != 'Normal' and confidence > self.threat_threshold
IsThreat(classification, confidence, threshold) ==
  classification # "Normal" /\ confidence > threshold

\* The severity table with a non-strict first cut point.
get_severity_AtLeast(classification, confidence) ==
  IF confidence >= CriticalAbove THEN "Critical"
  ELSE IF confidence > HighAbove THEN "High"
  ELSE IF confidence > MediumAbove THEN "Medium"
  ELSE "Low"

\* threat_detector.py:493-502  get_severity
get_severity(classification, confidence) ==
  IF confidence > CriticalAbove THEN "Critical"
  ELSE IF confidence > HighAbove THEN "High"
  ELSE IF confidence > MediumAbove THEN "Medium"
  ELSE "Low"

\* threat_detector.py:399-403: predict_proba returns one probability per class
\* of model.classes_, in sorted order; the model's arg-max class `top` has
\* probability p and the others share the rest.  The code indexes this vector
\* with the label code `pred` (0-based); -1 stands for the IndexError raised
\* when the code is not a position of the vector.
Confidence(cs, top, p, pred) ==
  IF pred >= Cardinality(cs) THEN -1
  ELSE IF ClassAt(cs, pred + 1) = top THEN p
  ELSE IF Cardinality(cs) > 1 THEN (1000 - p) \div (Cardinality(cs) - 1)
  ELSE 0

\* threat_detector.py:383-388  the answer of an untrained detector
UnknownAnalysis ==
  [classification |-> "Unknown", confidence |-> UnknownConfidence,
   isThreat |-> FALSE, threat |-> "none", severity |-> "none"]

ErrorAnalysis_AsThreat ==
  [classification |-> "Error", confidence |-> 0, isThreat |-> TRUE,
   threat |-> "record", severity |-> "Low"]

\* threat_detector.py:419-426  the answer after a caught exception
ErrorAnalysis ==
  [classification |-> "Error", confidence |-> 0, isThreat |-> FALSE,
   threat |-> "none", severity |-> "none"]

\* threat_detector.py:401-417 and create_threat_record (455-476): the result
\* of a classification; threat is "record" when a ThreatRecord was built, and
\* severity is the severity field of that record.
MakeAnalysis(code, confidence, threshold) ==
  LET classification == DecodeLabel(code)
      is_threat == IsThreat(classification, confidence, threshold)
  IN [classification |-> classification, confidence |-> confidence,
      isThreat |-> is_threat,
      threat |-> IF is_threat THEN "record" ELSE "none",
      severity |-> IF is_threat THEN get_severity(classification, confidence)
                   ELSE "none"]

\* ------------------------------------ NetworkMonitor.parse_packet_line

\* A capture line is the sequence of its whitespace-separated parts
\* (line.split()); a part is the sequence of its '.'-separated pieces and
\* whether it ends with ':'.  A piece is a numeral (digits only) with its
\* value, or some other text.
Num(n) == [digit |-> TRUE, v |-> n, s |-> ""]
Txt(t) == [digit |-> FALSE, v |-> 0, s |-> t]
Part(ps, c) == [pieces |-> ps, colon |-> c]
Word(t) == Part(<<Txt(t)>>, FALSE)
Number(n) == Part(<<Num(n)>>, FALSE)

\* "IP 192.168.1.100.52345 > 8.8.8.8.53: UDP, length 32"
\* (the example of network_monitor.py:138)
LineUdp ==
  <<Word("IP"), Part(<<Num(192), Num(168), Num(1), Num(100), Num(52345)>>, FALSE),
    Word(">"), Part(<<Num(8), Num(8), Num(8), Num(8), Num(53)>>, TRUE),
    Word("UDP,"), Word("length"), Number(32)>>

\* "IP 10.0.0.1 > 10.0.0.2: ICMP echo request, id 1, seq 1, length 64"
\* (tcpdump prints no ports for icmp, which the capture filter lets through)
LineIcmp ==
  <<Word("IP"), Part(<<Num(10), Num(0), Num(0), Num(1)>>, FALSE),
    Word(">"), Part(<<Num(10), Num(0), Num(0), Num(2)>>, TRUE),
    Word("ICMP"), Word("echo"), Word("request,"), Word("id"),
    Part(<<Txt("1,")>>, FALSE), Word("seq"), Part(<<Txt("1,")>>, FALSE),
    Word("length"), Number(64)>>

\* "garbage output not IP"
LineGarbage == <<Word("garbage"), Word("output"), Word("not"), Word("IP")>>

\* "IP truncated"
LineShort == <<Word("IP"), Word("truncated")>>

\* "" after strip(): a line of white space only
LineBlank == <<>>

Lines == {LineUdp, LineIcmp, LineGarbage, LineShort, LineBlank}

NoLine == <<Word("none")>>

\* The result None of parse_packet_line.
NoPacket ==
  [id |-> 0, sourceIP |-> <<>>, sourcePort |-> 0, destinationIP |-> <<>>,
   destinationPort |-> 0, protocol |-> "", packetSize |-> 0,
   networkInterface |-> "", rawLine |-> NoLine]

\* line.startswith('IP ') on the stripped line
StartsWithIP(l) == Len(l) >= 2 /\ l[1] = Word("IP")

\* part.rstrip(':')
RStripColon(part) == Part(part.pieces, FALSE)

\* str.isdigit() of the text after the last '.' of a part
LastIsDigit(part) == part.pieces[Len(part.pieces)].digit /\ ~part.colon

\* part.rsplit('.', 1): <<ip, port>> as lines 155-161 and 164-170 use it
SplitHostPort(part) ==
  IF Len(part.pieces) >= 2
    THEN [ip |-> SubSeq(part.pieces, 1, Len(part.pieces) - 1),
          port |-> IF LastIsDigit(part)
                     THEN part.pieces[Len(part.pieces)].v ELSE 0]
    ELSE [ip |-> part.pieces, port |-> 0]

\* int(parts[i + 1]), 0 when it raises (lines 176-179)
IntOrZero(part) ==
  IF Len(part.pieces) = 1 /\ LastIsDigit(part) THEN part.pieces[1].v ELSE 0

\* network_monitor.py:172-180: the number after the first 'length' part
PacketSize(l) ==
  LET at == {i \in 1..Len(l) : l[i] = Word("length")}
  IN IF at = {} THEN 0
     ELSE LET i == CHOOSE k \in at : \A j \in at : k <= j
          IN IF i + 1 <= Len(l) THEN IntOrZero(l[i + 1]) ELSE 0

\* str.lower() of the protocol part
Lower(t) ==
  CASE t = "UDP," -> "udp,"
    [] t = "ICMP" -> "icmp"
    [] OTHER -> t

\* network_monitor.py:134-199
parse_packet_line(l, interface, id) ==
  IF ~StartsWithIP(l) THEN NoPacket
  ELSE IF Len(l) < 6 THEN NoPacket
  ELSE LET src == SplitHostPort(l[2])
           dst == SplitHostPort(RStripColon(l[4]))
       IN [id |-> id, sourceIP |-> src.ip, sourcePort |-> src.port,
           destinationIP |-> dst.ip, destinationPort |-> dst.port,
           protocol |-> Lower(l[5].pieces[1].s), packetSize |-> PacketSize(l),
           networkInterface |-> interface, rawLine |-> l]

\* -------------------------------------------------------------------- Init

DetectorInit ==
  /\ model = NoObj
  /\ scaler = NoObj
  /\ is_trained = FALSE
  /\ model_version = InitialVersion
  /\ total_samples_trained = 0
  /\ training_history = <<>>
  /\ threat_threshold \in Thresholds

\* The artifact files are absent, or hold the artifact of an earlier process.
DiskInit ==
  \/ /\ diskModel = [exists |-> FALSE, obj |-> NoObj]
     /\ diskScaler = [exists |-> FALSE, obj |-> NoObj]
     /\ diskMeta = NoMeta
  \/ /\ diskModel = [exists |-> TRUE, obj |-> PriorObj]
     /\ diskScaler = [exists |-> TRUE, obj |-> PriorObj]
     /\ diskMeta = PriorMeta

ThreadsInit ==
  /\ pcT = [t \in Trainers |-> "idle"]
  /\ batch = [t \in Trainers |-> NoBatch]
  /\ startVer = [t \in Trainers |-> 0]
  /\ before = [t \in Trainers |-> NoSnapshot]
  /\ result = [t \in Trainers |-> NoResult]
  /\ runId = [t \in Trainers |-> 0]
  /\ nruns = 0
  /\ given = [t \in Trainers |-> "no call"]
  /\ saved_rows = [t \in Trainers |-> 0]
  /\ pcW = [w \in interfaces |-> "idle"]
  /\ usedScaler = [w \in interfaces |-> 0]
  /\ usedModel = [w \in interfaces |-> 0]
  /\ prediction = [w \in interfaces |-> 0]
  /\ analysis = [w \in interfaces |-> NoAnalysis]

NoCalls ==
  [save_threat |-> 0, create_alert |-> 0, send_threat_alert |-> 0,
   mark_alert_email_sent |-> 0]

\* NetworkMonitor.__init__ (network_monitor.py:18-28), no capture process,
\* empty store tables, empty e-mail queue.
\* ------------------------------------- ThreatDetector.process_csv_file

\* A row of the file: its threat_type cell ("nan": empty) and what its other
\* cells hold: numbers, nothing (NaN), or text where a number is expected.
RowLabels == {"DDoS", "Normal", "Foo", "nan"}
RowCells == {"numeric", "missing", "text"}
Rows == [threat_type : RowLabels, cells : RowCells]

RECURSIVE SeqsUpTo(_, _)
SeqsUpTo(S, n) ==
  IF n = 0 THEN {<<>>}
  ELSE LET shorter == SeqsUpTo(S, n - 1)
       IN shorter \cup {Append(q, x) : q \in shorter, x \in S}

\* The files: whether a required column is missing, and the rows.
CsvFiles == [missing : BOOLEAN, rows : SeqsUpTo(Rows, MaxRows)]

NotCalled == [raised |-> FALSE, samples |-> <<[label |-> "not called"]>>]
Raised == [raised |-> TRUE, samples |-> <<>>]

\* threat_detector.py:189-207: the nine features; float() or int() of a text
\* cell raises and the function returns [0] * 9; a NaN cell gives 0.
extract_features_from_csv_row(row) ==
  [len |-> 9, nan |-> FALSE, zeros |-> row.cells = "text"]

FeaturesValid_NotZeros(f) == f.len = 9 /\ ~f.nan /\ ~f.zeros

\* threat_detector.py:171  len(features) == 9 and not any(np.isnan(features))
FeaturesValid(f) == f.len = 9 /\ ~f.nan

\* threat_detector.py:154-160: df[df['threat_type'].isin(valid_threats)]
ValidRow(row) == \E k \in DOMAIN threat_types : threat_types[k] = row.threat_type

\* threat_detector.py:165-180: the loop over the rows that are left
RECURSIVE SamplesOf(_)
SamplesOf(rows) ==
  IF rows = <<>> THEN <<>>
  ELSE LET features == extract_features_from_csv_row(Head(rows))
           rest == SamplesOf(Tail(rows))
       IN IF FeaturesValid(features)
            THEN <<[features |-> features, label |-> Head(rows).threat_type,
                    raw_data |-> Head(rows)]>> \o rest
            ELSE rest

\* threat_detector.py:137-187
process_csv_file(file) ==
  IF file.missing THEN Raised
  ELSE [raised |-> FALSE, samples |-> SamplesOf(SelectSeq(file.rows, ValidRow))]

\* No file has been uploaded.
NoUpload ==
  /\ csv_file = [missing |-> FALSE, rows |-> <<>>]
  /\ csv_result = NotCalled

\* email_service.py:20-36: EmailService() with or without SMTP credentials
\* in the environment; with them the constructor starts the first thread.
MailInit(configured) ==
  /\ is_configured_flag = configured
  /\ is_processing = configured
  /\ pcE = [t \in 1..MaxConsumers |->
             IF configured /\ t = 1 THEN "check" ELSE "none"]

CaptureInit ==
  /\ monitor_threads = <<>>
  /\ startResult = "none"
  /\ pcStop = "idle"
  /\ toJoin = <<>>
  /\ pcL = [i \in LoopIds |-> "none"]
  /\ proc = [i \in LoopIds |-> "none"]
  /\ line = [i \in LoopIds |-> NoLine]
  /\ packet = [i \in LoopIds |-> NoPacket]
  /\ packet_buffer = <<>>
  /\ nlines = 0
  /\ calls = [i \in interfaces |-> NoCalls]
  /\ threats = {}
  /\ alerts = {}
  /\ training_data = {}
  /\ email_queue = 0
  /\ store = "up"
  /\ MailInit(FALSE)
  /\ NoUpload
  /\ isScanning = FALSE

\* An artifact of an earlier process whose training data held the labels
\* 'DDoS' and 'Normal' only.
SparseObj == FittedObj(0, {EncodeLabel("DDoS"), EncodeLabel("Normal")})

\* The application after construction with an artifact on disk, so that
\* scanning can be started without training first.
ScanInit ==
  /\ DetectorInit
  /\ \E obj \in {PriorObj, SparseObj} :
       /\ diskModel = [exists |-> TRUE, obj |-> obj]
       /\ diskScaler = [exists |-> TRUE, obj |-> obj]
  /\ diskMeta = PriorMeta
  /\ ThreadsInit
  /\ isTraining = FALSE
  /\ modelTrained = FALSE
  /\ booted = FALSE
  /\ is_monitoring = FALSE
  /\ CaptureInit

\* The application after the module-level construction (app.py:38-57).
Init ==
  /\ DetectorInit
  /\ threat_threshold = DefaultThreshold
  /\ DiskInit
  /\ ThreadsInit
  /\ isTraining = FALSE
  /\ modelTrained = FALSE
  /\ booted = FALSE
  /\ is_monitoring = FALSE
  /\ CaptureInit

\* --------------------------------------------- ThreatDetector: load / save

IoFaults == {"none", "model", "scaler", "meta"}

\* save_metadata (threat_detector.py:115-135): writes the JSON document; an
\* exception is logged and swallowed.
save_metadata(fault) ==
  IF fault = "meta"
    THEN UNCHANGED diskMeta
    ELSE diskMeta' = [exists |-> TRUE, version |-> model_version,
                      total |-> total_samples_trained,
                      history |-> training_history]

\* save_model (threat_detector.py:83-97).  fault names the write that raises:
\* the model blob, the scaler blob, the metadata, or none.  An exception of a
\* joblib.dump is caught and save_model returns False.
save_model(fault) ==
  /\ diskModel' = IF fault = "model" THEN diskModel
                  ELSE [exists |-> TRUE, obj |-> model]
  /\ diskScaler' = IF fault \in {"model", "scaler"} THEN diskScaler
                   ELSE [exists |-> TRUE, obj |-> scaler]
  /\ IF fault \in {"model", "scaler"} THEN UNCHANGED diskMeta
     ELSE save_metadata(fault)

\* load_metadata (threat_detector.py:99-113)
load_metadata(fault) ==
  IF diskMeta.exists /\ fault # "meta"
    THEN /\ model_version' = diskMeta.version
         /\ total_samples_trained' = diskMeta.total
         /\ training_history' = diskMeta.history
    ELSE UNCHANGED <<model_version, total_samples_trained, training_history>>

\* load_model (threat_detector.py:62-81).  fault names the read that raises.
load_model(fault) ==
  IF diskModel.exists /\ diskScaler.exists
    THEN /\ model' = IF fault = "model" THEN model ELSE diskModel.obj
         /\ scaler' = IF fault \in {"model", "scaler"} THEN scaler
                      ELSE diskScaler.obj
         /\ IF fault \in {"model", "scaler"}
              THEN UNCHANGED <<model_version, total_samples_trained,
                               training_history, is_trained>>
              ELSE /\ load_metadata(fault)
                   /\ is_trained' = TRUE
    ELSE UNCHANGED <<model, scaler, model_version, total_samples_trained,
                     training_history, is_trained>>

\* The value load_model returns.
load_model_ok(fault) ==
  diskModel.exists /\ diskScaler.exists /\ fault \notin {"model", "scaler"}

\* ------------------------------------------- ThreatDetector.train_model

Raise(t) ==
  /\ pcT' = [pcT EXCEPT ![t] = "tm_raised"]
  /\ result' = [result EXCEPT ![t] = NoResult]

Goto(t, pc) ==
  /\ pcT' = [pcT EXCEPT ![t] = pc]
  /\ UNCHANGED result

\* The store: "up" (requests succeed), "failing" (requests raise, which the
\* Database methods log) or "silent" (requests get no answer).
StoreModes == <<"up", "failing", "silent">>

\* The request of a Database method comes back.
Answers == store # "silent"

\* The insert of a Database method has stored its row.
Inserted == store = "up"

\* What train_model can get as training_data: nothing (None), or a list,
\* which is the samples of an uploaded file (app.py:147, 154) or the rows
\* retrain_model fetched from the store (app.py:198, 211).
TrainingArgs == {"None", "list"}

\* threat_detector.py:271-284: train_model inserts the samples it was given
\* into the store; with None it fetches the stored ones.
SavesSamples(g) == g # "None"

\* A call train_model(training_data) enters the function; g says what
\* training_data is, b describes the samples used.
EnterTrainModel(t, b, g) ==
  /\ nruns < MaxRuns
  /\ given' = [given EXCEPT ![t] = g]
  /\ saved_rows' = [saved_rows EXCEPT ![t] = 0]
  /\ nruns' = nruns + 1
  /\ runId' = [runId EXCEPT ![t] = nruns + 1]
  /\ batch' = [batch EXCEPT ![t] = b]
  /\ before' = [before EXCEPT ![t] = Snapshot]
  /\ startVer' = [startVer EXCEPT ![t] = model_version]
  /\ pcT' = [pcT EXCEPT ![t] = "tm_version"]
  /\ result' = [result EXCEPT ![t] = NoResult]

BumpVersion_Keep(v) == v

\* threat_detector.py:268  self.model_version += 1
BumpVersion(v) == v + 1

\* threat_detector.py:267-287: the incremented version is stored (its old
\* value was read on entry; the increment is not atomic), the samples are
\* fetched (training_data is None) or inserted into the store one by one
\* (database.py:234-259), and then the sample count is checked.
TrainVersionAndCount(t) ==
  /\ pcT[t] = "tm_version"
  /\ model_version' = BumpVersion(startVer[t])
  /\ Answers
  /\ saved_rows' = IF SavesSamples(given[t]) /\ Inserted
                     THEN [saved_rows EXCEPT ![t] = batch[t].n]
                     ELSE saved_rows
  /\ IF batch[t].n < MinSamples THEN Raise(t) ELSE Goto(t, "tm_split")
  /\ UNCHANGED <<model, scaler, is_trained, total_samples_trained,
                 training_history, threat_threshold>>
  /\ UNCHANGED <<diskVars, appVars, workVars>>
  /\ UNCHANGED <<batch, startVer, before, runId, nruns, given>>

\* threat_detector.py:289-312: feature checks, the stratified split, and the
\* replacement of self.scaler by a new StandardScaler.
TrainSplit(t) ==
  /\ pcT[t] = "tm_split"
  /\ IF batch[t].fault = "split"
       THEN Raise(t) /\ UNCHANGED scaler
       ELSE Goto(t, "tm_scale") /\ scaler' = NewObj(runId[t])
  /\ UNCHANGED <<model, is_trained, model_version, total_samples_trained,
                 training_history, threat_threshold>>
  /\ UNCHANGED <<diskVars, appVars, workVars>>
  /\ UNCHANGED <<batch, startVer, before, runId, nruns, given, saved_rows>>

\* threat_detector.py:313-314: self.scaler.fit_transform(X_train) fits the
\* object self.scaler refers to on this run's data.
TrainScale(t) ==
  /\ pcT[t] = "tm_scale"
  /\ scaler' = FittedObj(runId[t], {})
  /\ Goto(t, "tm_encode")
  /\ UNCHANGED <<model, is_trained, model_version, total_samples_trained,
                 training_history, threat_threshold>>
  /\ UNCHANGED <<diskVars, appVars, workVars>>
  /\ UNCHANGED <<batch, startVer, before, runId, nruns, given, saved_rows>>

\* threat_detector.py:318-331: label_encoder.transform, then self.model is
\* replaced by a new RandomForestClassifier.
TrainEncode(t) ==
  /\ pcT[t] = "tm_encode"
  /\ IF batch[t].fault = "encode"
       THEN Raise(t) /\ UNCHANGED model
       ELSE Goto(t, "tm_fit") /\ model' = NewObj(runId[t])
  /\ UNCHANGED <<scaler, is_trained, model_version, total_samples_trained,
                 training_history, threat_threshold>>
  /\ UNCHANGED <<diskVars, appVars, workVars>>
  /\ UNCHANGED <<batch, startVer, before, runId, nruns, given, saved_rows>>

\* threat_detector.py:333: self.model.fit fits the object self.model refers to.
TrainFit(t) ==
  /\ pcT[t] = "tm_fit"
  /\ IF batch[t].fault = "fit"
       THEN Raise(t) /\ UNCHANGED model
       ELSE Goto(t, "tm_eval") /\ model' = FittedObj(runId[t], batch[t].codes)
  /\ UNCHANGED <<scaler, is_trained, model_version, total_samples_trained,
                 training_history, threat_threshold>>
  /\ UNCHANGED <<diskVars, appVars, workVars>>
  /\ UNCHANGED <<batch, startVer, before, runId, nruns, given, saved_rows>>

\* threat_detector.py:336-343: self.model.predict on the held-out split (it
\* raises on an object that is not fitted), accuracy, classification_report.
TrainEval(t) ==
  /\ pcT[t] = "tm_eval"
  /\ IF model.st # "fitted" \/ batch[t].fault = "eval"
       THEN Raise(t)
       ELSE Goto(t, "tm_stats")
  /\ UNCHANGED <<detVars, diskVars, appVars, workVars>>
  /\ UNCHANGED <<batch, startVer, before, runId, nruns, given, saved_rows>>

\* threat_detector.py:345-357: training statistics and the history entry.
TrainStats(t) ==
  /\ pcT[t] = "tm_stats"
  /\ total_samples_trained' = total_samples_trained + batch[t].n
  /\ is_trained' = TRUE
  /\ training_history' =
       Append(training_history,
              [samples |-> batch[t].n, version |-> model_version])
  /\ Goto(t, "tm_save")
  /\ UNCHANGED <<model, scaler, model_version, threat_threshold>>
  /\ UNCHANGED <<diskVars, appVars, workVars>>
  /\ UNCHANGED <<batch, startVer, before, runId, nruns, given, saved_rows>>

\* The result dictionary of threat_detector.py:362-368.
TrainResult(t) ==
  [success |-> TRUE, samplesProcessed |-> batch[t].n, version |-> model_version]

\* threat_detector.py:359-373: self.save_model() (its return value is not
\* looked at), then the result is returned.
TrainSaveReturn(t) ==
  /\ pcT[t] = "tm_save"
  /\ save_model(batch[t].io)
  /\ pcT' = [pcT EXCEPT ![t] = "tm_returned"]
  /\ result' = [result EXCEPT ![t] = TrainResult(t)]
  /\ UNCHANGED <<detVars, appVars, workVars>>
  /\ UNCHANGED <<batch, startVer, before, runId, nruns, given, saved_rows>>

TrainStep(t) ==
  \/ TrainVersionAndCount(t)
  \/ TrainSplit(t)
  \/ TrainScale(t)
  \/ TrainEncode(t)
  \/ TrainFit(t)
  \/ TrainEval(t)
  \/ TrainStats(t)
  \/ TrainSaveReturn(t)

\* ------------------------------------------ ThreatDetector.analyze_packet

Return(w, a) ==
  /\ pcW' = [pcW EXCEPT ![w] = "returned"]
  /\ analysis' = [analysis EXCEPT ![w] = a]
  /\ usedScaler' = [usedScaler EXCEPT ![w] = 0]
  /\ usedModel' = [usedModel EXCEPT ![w] = 0]
  /\ prediction' = [prediction EXCEPT ![w] = 0]

Continue(w, pc, us, um, pr) ==
  /\ pcW' = [pcW EXCEPT ![w] = pc]
  /\ usedScaler' = [usedScaler EXCEPT ![w] = us]
  /\ usedModel' = [usedModel EXCEPT ![w] = um]
  /\ prediction' = [prediction EXCEPT ![w] = pr]
  /\ UNCHANGED analysis

\* threat_detector.py:381-388: the guard.
AnalyzeGuard(w) ==
  /\ pcW[w] = "idle"
  /\ IF Untrained(is_trained, model)
       THEN Return(w, UnknownAnalysis)
       ELSE Continue(w, "a_scale", 0, 0, 0)
  /\ UNCHANGED <<detVars, diskVars, appVars, trainVars>>

\* threat_detector.py:391-395: features_scaled = self.scaler.transform(...);
\* transform raises on a scaler that is not fitted.
AnalyzeScale(w) ==
  /\ pcW[w] = "a_scale"
  /\ IF scaler.st # "fitted"
       THEN Return(w, ErrorAnalysis)
       ELSE Continue(w, "a_predict", scaler.run, 0, 0)
  /\ UNCHANGED <<detVars, diskVars, appVars, trainVars>>

\* threat_detector.py:398: prediction = self.model.predict(...)[0], one of the
\* classes the model was fitted on; predict raises on an unfitted model.
AnalyzePredict(w) ==
  /\ pcW[w] = "a_predict"
  /\ IF model.st # "fitted"
       THEN Return(w, ErrorAnalysis)
       ELSE \E c \in model.codes :
              Continue(w, "a_proba", usedScaler[w], model.run, c)
  /\ UNCHANGED <<detVars, diskVars, appVars, trainVars>>

\* threat_detector.py:399-426: predict_proba on self.model (read again), the
\* confidence, the threat decision and the record; any exception gives the
\* 'Error' answer.  confs: the probabilities tried for the arg-max class.
AnalyzeProba(w, confs) ==
  /\ pcW[w] = "a_proba"
  /\ IF model.st # "fitted"
       THEN Return(w, ErrorAnalysis)
       ELSE \E top \in model.codes, p \in confs :
              /\ (model.run = usedModel[w] => top = prediction[w])
              /\ LET confidence == Confidence(model.codes, top, p, prediction[w])
                 IN IF confidence < 0
                      THEN Return(w, ErrorAnalysis)
                      ELSE Return(w, MakeAnalysis(prediction[w], confidence,
                                                  threat_threshold))
  /\ UNCHANGED <<detVars, diskVars, appVars, trainVars>>

\* The caller takes the result; the worker is ready for the next packet.
AnalyzeDone(w) ==
  /\ pcW[w] = "returned"
  /\ pcW' = [pcW EXCEPT ![w] = "idle"]
  /\ analysis' = [analysis EXCEPT ![w] = NoAnalysis]
  /\ UNCHANGED <<usedScaler, usedModel, prediction>>
  /\ UNCHANGED <<detVars, diskVars, appVars, trainVars>>

AnalyzeStep(w, confs) ==
  \/ AnalyzeGuard(w)
  \/ AnalyzeScale(w)
  \/ AnalyzePredict(w)
  \/ AnalyzeProba(w, confs)
  \/ AnalyzeDone(w)

\* ------------------------------------------------------ app.py: handlers

\* initialize_system (app.py:543-545): threat_detector.initialize() loads the
\* artifact if its files exist; modelTrained is what it returned.
Startup ==
  /\ ~booted
  /\ booted' = TRUE
  /\ \E fault \in IoFaults :
       /\ load_model(fault)
       /\ modelTrained' = load_model_ok(fault)
  /\ UNCHANGED <<threat_threshold, isTraining, is_monitoring, capVars>>
  /\ UNCHANGED <<diskVars, trainVars, workVars>>

SlotFree(t) == pcT[t] \in {"idle", "rejected"}

\* Requests being handled that have not yet entered train_model.
Pending == {t \in Trainers : pcT[t] \in {"tr_set", "tr_csv", "rt_fetch", "rt_set"}}

CanAccept == nruns + Cardinality(Pending) < MaxRuns

\* app.py:134-135 and 194-195: the isTraining check of both endpoints.
AlreadyTraining == isTraining

\* POST /api/model/train, app.py:134-136: the check.
ReqTrainCheck(t) ==
  /\ booted /\ SlotFree(t) /\ CanAccept
  /\ pcT' = [pcT EXCEPT ![t] = IF AlreadyTraining THEN "rejected" ELSE "tr_set"]
  /\ UNCHANGED <<batch, startVer, before, result, runId, nruns, given, saved_rows>>
  /\ UNCHANGED <<detVars, diskVars, appVars, workVars>>

\* app.py:138: system_status['isTraining'] = True
ReqTrainSet(t) ==
  /\ pcT[t] = "tr_set"
  /\ isTraining' = TRUE
  /\ pcT' = [pcT EXCEPT ![t] = "tr_csv"]
  /\ UNCHANGED <<modelTrained, booted, is_monitoring, capVars>>
  /\ UNCHANGED <<batch, startVer, before, result, runId, nruns, given, saved_rows>>
  /\ UNCHANGED <<detVars, diskVars, workVars>>

\* app.py:139-148, 176-188: process_csv_file raises (a required column is
\* missing), or an emit or the start of the thread does; the handler
\* clears the flag and answers 500.
ReqTrainCsvError(t) ==
  /\ pcT[t] = "tr_csv"
  /\ isTraining' = FALSE
  /\ pcT' = [pcT EXCEPT ![t] = "idle"]
  /\ UNCHANGED <<modelTrained, booted, is_monitoring, capVars>>
  /\ UNCHANGED <<batch, startVer, before, result, runId, nruns, given, saved_rows>>
  /\ UNCHANGED <<detVars, diskVars, workVars>>

\* app.py:141-183: the samples of the uploaded file (or, without a file, the
\* stored ones train_model fetches) and the start of train_in_background.
ReqTrainStart(t, args) ==
  /\ pcT[t] = "tr_csv"
  /\ \E b \in AppBatches, g \in args : EnterTrainModel(t, b, g)
  /\ UNCHANGED <<detVars, diskVars, appVars, workVars>>

\* POST /api/model/retrain, app.py:194-195: the check.
ReqRetrainCheck(t) ==
  /\ booted /\ SlotFree(t) /\ CanAccept
  /\ pcT' = [pcT EXCEPT ![t] = IF AlreadyTraining THEN "rejected" ELSE "rt_fetch"]
  /\ UNCHANGED <<batch, startVer, before, result, runId, nruns, given, saved_rows>>
  /\ UNCHANGED <<detVars, diskVars, appVars, workVars>>

\* app.py:197-203: db.get_all_training_data() and the count check.
ReqRetrainFetch(t) ==
  /\ pcT[t] = "rt_fetch"
  /\ \E b \in AppBatches :
       IF b.n < MinSamples
         THEN /\ pcT' = [pcT EXCEPT ![t] = "idle"]
              /\ UNCHANGED batch
         ELSE /\ pcT' = [pcT EXCEPT ![t] = "rt_set"]
              /\ batch' = [batch EXCEPT ![t] = b]
  /\ UNCHANGED <<startVer, before, result, runId, nruns, given, saved_rows>>
  /\ UNCHANGED <<detVars, diskVars, appVars, workVars>>

\* app.py:205-230: the flag is set and retrain_in_background is started.
ReqRetrainStart(t) ==
  /\ pcT[t] = "rt_set"
  /\ isTraining' = TRUE
  /\ EnterTrainModel(t, batch[t], "list")
  /\ UNCHANGED <<modelTrained, booted, is_monitoring, capVars>>
  /\ UNCHANGED <<detVars, diskVars, workVars>>

\* app.py:206-207, 225-234: the flag is set, and the emit of the 'started'
\* status or the start of the thread raises; the handler logs the
\* exception and answers 500.
ReqRetrainStartError(t) ==
  /\ pcT[t] = "rt_set"
  /\ isTraining' = TRUE
  /\ pcT' = [pcT EXCEPT ![t] = "idle"]
  /\ batch' = [batch EXCEPT ![t] = NoBatch]
  /\ UNCHANGED <<modelTrained, booted, is_monitoring, capVars>>
  /\ UNCHANGED <<startVer, before, result, runId, nruns, given, saved_rows>>
  /\ UNCHANGED <<detVars, diskVars, workVars>>

\* app.py:155-157 / 213-215 (train_model returned) and 172-173 / 220-221
\* (it raised): the background thread clears the flag and ends.
BackgroundEnd(t) ==
  /\ pcT[t] \in {"tm_returned", "tm_raised"}
  /\ isTraining' = FALSE
  /\ modelTrained' = (modelTrained \/ pcT[t] = "tm_returned")
  /\ pcT' = [pcT EXCEPT ![t] = "idle"]
  /\ result' = [result EXCEPT ![t] = NoResult]
  /\ batch' = [batch EXCEPT ![t] = NoBatch]
  /\ startVer' = [startVer EXCEPT ![t] = 0]
  /\ before' = [before EXCEPT ![t] = NoSnapshot]
  /\ runId' = [runId EXCEPT ![t] = 0]
  /\ given' = [given EXCEPT ![t] = "no call"]
  /\ saved_rows' = [saved_rows EXCEPT ![t] = 0]
  /\ UNCHANGED <<nruns, booted, is_monitoring, capVars>>
  /\ UNCHANGED <<detVars, diskVars, workVars>>

\* POST /api/system/start-scan, app.py:239-247 and
\* network_monitor.py:49-70: refused without a trained model; otherwise the
\* interface threads are started.
ReqStartScan ==
  /\ booted /\ modelTrained /\ ~is_monitoring
  /\ is_monitoring' = TRUE
  /\ isScanning' = TRUE
  /\ UNCHANGED <<isTraining, modelTrained, booted>>
  /\ UNCHANGED <<monVars, loopVars, sinkVars, store, mailVars, csvVars>>
  /\ UNCHANGED <<detVars, diskVars, trainVars, workVars>>

\* POST /api/system/stop-scan, app.py:260-263 and network_monitor.py:74-80.
ReqStopScan ==
  /\ is_monitoring
  /\ is_monitoring' = FALSE
  /\ isScanning' = FALSE
  /\ UNCHANGED <<isTraining, modelTrained, booted>>
  /\ UNCHANGED <<monVars, loopVars, sinkVars, store, mailVars, csvVars>>
  /\ UNCHANGED <<detVars, diskVars, trainVars, workVars>>

\* network_monitor.py:114-120, 201-213 and app.py:467-471: an interface
\* thread takes a packet while is_monitoring holds and hands it to
\* analyze_packet; a packet already taken is processed to the end.
Capturing(w) == pcW[w] = "idle" => is_monitoring

\* Training runs that are active: train_model has been entered and the
\* background thread has not ended.
ActiveRuns ==
  {t \in Trainers : pcT[t] \notin {"idle", "rejected", "tr_set", "tr_csv",
                                   "rt_fetch", "rt_set"}}

\* The application: requests handled in the slots `slots`, their background
\* training threads, and the interface workers classifying packets while
\* scanning is on.
AppNext(slots, args) ==
  \/ Startup
  \/ \E t \in slots : ReqTrainCheck(t)
  \/ \E t \in slots : ReqTrainSet(t)
  \/ \E t \in slots : ReqTrainCsvError(t)
  \/ \E t \in slots : ReqTrainStart(t, args)
  \/ \E t \in slots : ReqRetrainCheck(t)
  \/ \E t \in slots : ReqRetrainFetch(t)
  \/ \E t \in slots : ReqRetrainStart(t)
  \/ \E t \in slots : ReqRetrainStartError(t)
  \/ \E t \in slots : BackgroundEnd(t)
  \/ \E t \in slots : TrainStep(t)
  \/ ReqStartScan
  \/ ReqStopScan
  \/ \E w \in Workers : Capturing(w) /\ AnalyzeStep(w, AppConfLevels)

\* Requests may overlap: two request threads; the train requests upload a
\* file.
Next == AppNext(Trainers, {"list"})

Spec == Init /\ [][Next]_vars

\* Requests arrive one after the other (one request thread), while the
\* interface worker classifies packets.
Caller == CHOOSE t \in Trainers : \A u \in Trainers : t <= u

LiveNext == AppNext({Caller}, TrainingArgs)

SpecLive == Init /\ [][LiveNext]_vars

\* The request handler and the background thread take their steps: a
\* handler that has set the flag goes on, train_model runs to its end, and
\* the background thread finishes after it.
LiveFairness ==
  /\ WF_vars(ReqTrainCsvError(Caller) \/ ReqTrainStart(Caller, TrainingArgs))
  /\ WF_vars(TrainStep(Caller))
  /\ WF_vars(BackgroundEnd(Caller))

SpecLiveFair == SpecLive /\ LiveFairness

\* ------------------------- one ThreatDetector, a trainer and the workers
\* The detection core without the HTTP surface: the detector is initialized,
\* one thread runs train_model calls one after the other and records a
\* success as the background thread does, and the interface workers
\* classify packets at any time after initialization (no start-scan
\* request stands between a caller and analyze_packet).

\* app.py:151-154: train_in_background calls threat_detector.train_model.
CoreTrain ==
  /\ booted /\ pcT[Caller] = "idle"
  /\ \E b \in AppBatches, g \in TrainingArgs : EnterTrainModel(Caller, b, g)
  /\ UNCHANGED <<detVars, diskVars, appVars, workVars>>

CoreNext ==
  \/ Startup
  \/ CoreTrain
  \/ TrainStep(Caller)
  \/ BackgroundEnd(Caller)
  \/ \E w \in Workers : booted /\ AnalyzeStep(w, AppConfLevels)

SpecCore == Init /\ [][CoreNext]_vars

\* ------------------------------------- one ThreatDetector, one caller
\* The public methods of one ThreatDetector called one after the other:
\* train_model, save_model, load_model (initialize) and analyze_packet.

Quiet == pcT[Caller] = "idle" /\ \A w \in Workers : pcW[w] = "idle"

DetInit ==
  /\ DetectorInit
  /\ DiskInit
  /\ ThreadsInit
  /\ isTraining = FALSE
  /\ modelTrained = FALSE
  /\ booted = FALSE
  /\ is_monitoring = FALSE
  /\ CaptureInit

CallTrainModel ==
  /\ Quiet
  /\ \E b \in Batches, g \in TrainingArgs : EnterTrainModel(Caller, b, g)
  /\ UNCHANGED <<detVars, diskVars, appVars, workVars>>

RunTrainModel == TrainStep(Caller)

\* The caller receives the result or the exception of train_model.
EndTrainModel ==
  /\ pcT[Caller] \in {"tm_returned", "tm_raised"}
  /\ pcT' = [pcT EXCEPT ![Caller] = "idle"]
  /\ result' = [result EXCEPT ![Caller] = NoResult]
  /\ batch' = [batch EXCEPT ![Caller] = NoBatch]
  /\ startVer' = [startVer EXCEPT ![Caller] = 0]
  /\ before' = [before EXCEPT ![Caller] = NoSnapshot]
  /\ runId' = [runId EXCEPT ![Caller] = 0]
  /\ given' = [given EXCEPT ![Caller] = "no call"]
  /\ saved_rows' = [saved_rows EXCEPT ![Caller] = 0]
  /\ UNCHANGED nruns
  /\ UNCHANGED <<detVars, diskVars, appVars, workVars>>

CallLoadModel ==
  /\ Quiet
  /\ \E fault \in IoFaults : load_model(fault)
  /\ UNCHANGED threat_threshold
  /\ UNCHANGED <<diskVars, appVars, trainVars, workVars>>

CallSaveModel ==
  /\ Quiet
  /\ \E fault \in IoFaults : save_model(fault)
  /\ UNCHANGED <<detVars, appVars, trainVars, workVars>>

CallAnalyzePacket ==
  /\ pcT[Caller] = "idle"
  /\ \E w \in Workers : AnalyzeStep(w, ConfLevels)

DetNext ==
  \/ CallTrainModel
  \/ RunTrainModel
  \/ EndTrainModel
  \/ CallLoadModel
  \/ CallSaveModel
  \/ CallAnalyzePacket

SpecDetector == DetInit /\ [][DetNext]_vars

\* A fresh ThreatDetector on which only train_model is called, one call
\* after the other: nothing is loaded from the artifact files.
TrainCallsNext ==
  \/ CallTrainModel
  \/ RunTrainModel
  \/ EndTrainModel

SpecTrainCalls == DetInit /\ [][TrainCallsNext]_vars

\* ----------------------------------------- NetworkMonitor: start and stop

\* self.interfaces in list order (network_monitor.py:20-21)
interfaceList == <<"eth0", "wlan0">>

\* No monitor_interface thread of an earlier start is still alive.
NoLoopAlive == \A t \in LoopIds : pcL[t] \in {"none", "done"}

\* The thread start_monitoring creates for interface i: the first of the
\* interface's two when no earlier thread of it is alive, else the second.
Slot(i) == IF pcL[i] \in {"none", "done"} THEN i ELSE Second(i)

\* The threads a start creates (network_monitor.py:63-70).
NewLoops == {Slot(i) : i \in interfaces}

\* Every interface has room for the thread of one more start.
SlotsFree == \A t \in NewLoops : pcL[t] \in {"none", "done"}

start_monitoring_SetFirst(available) ==
  IF is_monitoring
    THEN /\ startResult' = "already"
         /\ UNCHANGED <<is_monitoring, monitor_threads, pcL>>
    ELSE IF ~available
      THEN /\ startResult' = "unavailable"
           /\ is_monitoring' = TRUE
           /\ UNCHANGED <<monitor_threads, pcL>>
      ELSE /\ startResult' = "started"
           /\ is_monitoring' = TRUE
           /\ pcL' = [t \in LoopIds |-> IF t \in NewLoops THEN "spawned" ELSE pcL[t]]
           /\ monitor_threads' = monitor_threads \o interfaceList

\* network_monitor.py:49-72; available is what is_available() (30-43)
\* returned: whether `which tcpdump` found the capture tool.
start_monitoring(available) ==
  IF is_monitoring
    THEN /\ startResult' = "already"
         /\ UNCHANGED <<is_monitoring, monitor_threads, pcL>>
    ELSE IF ~available
      THEN /\ startResult' = "unavailable"
           /\ UNCHANGED <<is_monitoring, monitor_threads, pcL>>
      ELSE /\ startResult' = "started"
           /\ is_monitoring' = TRUE
           /\ pcL' = [t \in LoopIds |-> IF t \in NewLoops THEN "spawned" ELSE pcL[t]]
           /\ monitor_threads' = monitor_threads \o interfaceList

\* POST /api/system/start-scan (app.py:238-257) with the monitor's threads,
\* when no thread of an earlier start is left.
StartScanning ==
  /\ booted /\ modelTrained /\ pcStop = "idle"
  /\ is_monitoring \/ NoLoopAlive
  /\ \E available \in BOOLEAN : start_monitoring(available)
  /\ UNCHANGED <<isTraining, modelTrained, booted>>
  /\ isScanning' = TRUE
  /\ UNCHANGED <<pcStop, toJoin, loopVarsButPc, sinkVars>>
  /\ UNCHANGED <<store, mailVars, csvVars>>
  /\ UNCHANGED <<detVars, diskVars, trainVars, workVars>>

\* POST /api/system/start-scan (app.py:238-257) after a stop whose joins
\* timed out (network_monitor.py:83-85): threads of the earlier start are
\* still alive, and start_monitoring creates one more per interface.
StartScanningAgain ==
  /\ booted /\ modelTrained /\ pcStop = "idle"
  /\ ~is_monitoring /\ ~NoLoopAlive /\ SlotsFree
  /\ \E available \in BOOLEAN : start_monitoring(available)
  /\ UNCHANGED <<isTraining, modelTrained, booted>>
  /\ isScanning' = TRUE
  /\ UNCHANGED <<pcStop, toJoin, loopVarsButPc, sinkVars>>
  /\ UNCHANGED <<store, mailVars, csvVars>>
  /\ UNCHANGED <<detVars, diskVars, trainVars, workVars>>

\* POST /api/system/stop-scan (app.py:259-263); stop_monitoring,
\* network_monitor.py:74-80: the flag is cleared.
StopBegin ==
  /\ booted /\ pcStop = "idle" /\ is_monitoring
  /\ is_monitoring' = FALSE
  /\ toJoin' = monitor_threads
  /\ pcStop' = "joining"
  /\ UNCHANGED <<isTraining, modelTrained, booted>>
  /\ UNCHANGED <<monitor_threads, startResult, loopVars, sinkVars, envVars>>
  /\ UNCHANGED <<detVars, diskVars, trainVars, workVars>>

\* network_monitor.py:83-85: thread.join(timeout=2) returns when the thread
\* has ended or when the two seconds are over, whichever comes first.
StopJoin ==
  /\ pcStop = "joining" /\ toJoin # <<>>
  /\ toJoin' = Tail(toJoin)
  /\ UNCHANGED <<isTraining, modelTrained, booted, is_monitoring>>
  /\ UNCHANGED <<monitor_threads, startResult, pcStop, loopVars, sinkVars, envVars>>
  /\ UNCHANGED <<detVars, diskVars, trainVars, workVars>>

\* network_monitor.py:87-88: monitor_threads.clear() and the return.
StopReturn ==
  /\ pcStop = "joining" /\ toJoin = <<>>
  /\ monitor_threads' = <<>>
  /\ pcStop' = "idle"
  /\ UNCHANGED <<isTraining, modelTrained, booted, is_monitoring>>
  /\ isScanning' = FALSE
  /\ UNCHANGED <<startResult, toJoin, loopVars, sinkVars>>
  /\ UNCHANGED <<store, mailVars, csvVars>>
  /\ UNCHANGED <<detVars, diskVars, trainVars, workVars>>

\* POST /api/system/stop-scan while nothing is monitored (app.py:259-264):
\* stop_monitoring returns at once (network_monitor.py:76-77) and the
\* handler clears isScanning.
StopScanningIdle ==
  /\ booted /\ pcStop = "idle" /\ ~is_monitoring
  /\ isScanning' = FALSE
  /\ UNCHANGED <<isTraining, modelTrained, booted, is_monitoring>>
  /\ UNCHANGED <<monVars, loopVars, sinkVars, store, mailVars, csvVars>>
  /\ UNCHANGED <<detVars, diskVars, trainVars, workVars>>

\* ------------------------------------- NetworkMonitor.monitor_interface

\* A step of the thread of interface i that only moves its position.
Move(i, pc) ==
  /\ pcL' = [pcL EXCEPT ![i] = pc]
  /\ UNCHANGED <<proc, line, packet, packet_buffer, nlines>>
  /\ UNCHANGED <<isTraining, modelTrained, booted, is_monitoring>>
  /\ UNCHANGED <<monVars, sinkVars, envVars>>
  /\ UNCHANGED <<detVars, diskVars, trainVars, workVars>>

\* network_monitor.py:106-112 and 131-132: subprocess.Popen starts the
\* capture process, or raises and the thread ends.
LoopPopen(i) ==
  /\ pcL[i] = "spawned"
  /\ \E started \in BOOLEAN :
       /\ pcL' = [pcL EXCEPT ![i] = IF started THEN "loop" ELSE "done"]
       /\ proc' = [proc EXCEPT ![i] = IF started THEN "running" ELSE "none"]
  /\ UNCHANGED <<line, packet, packet_buffer, nlines>>
  /\ UNCHANGED <<isTraining, modelTrained, booted, is_monitoring>>
  /\ UNCHANGED <<monVars, sinkVars, envVars>>
  /\ UNCHANGED <<detVars, diskVars, trainVars, workVars>>

\* network_monitor.py:114  while self.is_monitoring
LoopCheck(i) ==
  /\ pcL[i] = "loop"
  /\ Move(i, IF is_monitoring THEN "readline" ELSE "terminate")

\* network_monitor.py:116-117: readline returns the next line the capture
\* process has written (one of ls); it blocks while the process runs and
\* writes nothing.
ReadLine(i, ls) ==
  /\ pcL[i] = "readline" /\ proc[i] = "running" /\ nlines < MaxLines
  /\ \E l \in ls : line' = [line EXCEPT ![i] = l]
  /\ nlines' = nlines + 1
  /\ pcL' = [pcL EXCEPT ![i] = "parse"]
  /\ UNCHANGED <<proc, packet, packet_buffer>>
  /\ UNCHANGED <<isTraining, modelTrained, booted, is_monitoring>>
  /\ UNCHANGED <<monVars, sinkVars, envVars>>
  /\ UNCHANGED <<detVars, diskVars, trainVars, workVars>>

\* network_monitor.py:116-122: at end of file (the capture process has
\* exited) readline returns '' at once and the loop sleeps 0.1 s.
ReadEof(i) ==
  /\ pcL[i] = "readline" /\ proc[i] = "exited"
  /\ Move(i, "sleep")

\* network_monitor.py:123-125: readline raises; the loop is left.
ReadError(i) ==
  /\ pcL[i] = "readline" /\ proc[i] = "running" /\ nlines < MaxLines
  /\ nlines' = nlines + 1
  /\ pcL' = [pcL EXCEPT ![i] = "terminate"]
  /\ UNCHANGED <<proc, line, packet, packet_buffer>>
  /\ UNCHANGED <<isTraining, modelTrained, booted, is_monitoring>>
  /\ UNCHANGED <<monVars, sinkVars, envVars>>
  /\ UNCHANGED <<detVars, diskVars, trainVars, workVars>>

\* network_monitor.py:122  time.sleep(0.1), then the loop condition again
Sleep(i) ==
  /\ pcL[i] = "sleep"
  /\ Move(i, "loop")

\* network_monitor.py:118-119: parse_packet_line(line.strip(), interface);
\* None sends the loop to its next round.
Parse(i) ==
  /\ pcL[i] = "parse"
  /\ LET p == parse_packet_line(line[i], InterfaceOf(i), nlines)
     IN /\ packet' = [packet EXCEPT ![i] = p]
        /\ pcL' = [pcL EXCEPT ![i] = IF p = NoPacket THEN "loop" ELSE "handle"]
  /\ line' = [line EXCEPT ![i] = NoLine]
  /\ UNCHANGED <<proc, packet_buffer, nlines>>
  /\ UNCHANGED <<isTraining, modelTrained, booted, is_monitoring>>
  /\ UNCHANGED <<monVars, sinkVars, envVars>>
  /\ UNCHANGED <<detVars, diskVars, trainVars, workVars>>

\* list.append followed by pop(0) when the list is longer than buffer_size
Buffered(buf, p) ==
  IF Len(buf) + 1 > buffer_size THEN Tail(Append(buf, p)) ELSE Append(buf, p)

\* network_monitor.py:201-213: handle_packet appends to packet_buffer and
\* calls the packet handler (handle_packet_captured, set at app.py:553).
HandlePacket(i) ==
  /\ pcL[i] = "handle"
  /\ packet_buffer' = Buffered(packet_buffer, packet[i].id)
  /\ pcL' = [pcL EXCEPT ![i] = "hp_analyze"]
  /\ UNCHANGED <<proc, line, packet, nlines>>
  /\ UNCHANGED <<isTraining, modelTrained, booted, is_monitoring>>
  /\ UNCHANGED <<monVars, sinkVars, envVars>>
  /\ UNCHANGED <<detVars, diskVars, trainVars, workVars>>

\* network_monitor.py:127-129: process.terminate(), process.wait(); the
\* thread ends.
Terminate(i) ==
  /\ pcL[i] = "terminate"
  /\ pcL' = [pcL EXCEPT ![i] = "done"]
  /\ proc' = [proc EXCEPT ![i] = "terminated"]
  /\ UNCHANGED <<line, packet, packet_buffer, nlines>>
  /\ UNCHANGED <<isTraining, modelTrained, booted, is_monitoring>>
  /\ UNCHANGED <<monVars, sinkVars, envVars>>
  /\ UNCHANGED <<detVars, diskVars, trainVars, workVars>>

\* The capture process of interface i exits on its own.
ProcExits(i) ==
  /\ proc[i] = "running"
  /\ proc' = [proc EXCEPT ![i] = "exited"]
  /\ UNCHANGED <<pcL, line, packet, packet_buffer, nlines>>
  /\ UNCHANGED <<isTraining, modelTrained, booted, is_monitoring>>
  /\ UNCHANGED <<monVars, sinkVars, envVars>>
  /\ UNCHANGED <<detVars, diskVars, trainVars, workVars>>

\* ------------------------------------------ app.py: handle_packet_captured

\* The probabilities tried for captured packets: the cut points of the
\* threshold, of the severity table and of learning, and one above them.
CaptureConfLevels == {MediumAbove, HighAbove, CriticalAbove, CriticalAbove + 50}

\* app.py:471: threat_detector.analyze_packet(packet_data), step by step.
HandlerAnalyze(i) ==
  /\ pcL[i] = "hp_analyze"
  /\ \/ AnalyzeGuard(i)
     \/ AnalyzeScale(i)
     \/ AnalyzePredict(i)
     \/ AnalyzeProba(i, CaptureConfLevels)

\* What a step of handle_packet_captured on interface i leaves alone.
HandlerFrame ==
  /\ UNCHANGED <<usedScaler, usedModel, prediction>>
  /\ UNCHANGED <<proc, line, packet_buffer, nlines>>
  /\ UNCHANGED <<isTraining, modelTrained, booted, is_monitoring>>
  /\ UNCHANGED <<monVars, envVars>>
  /\ UNCHANGED <<detVars, diskVars, trainVars>>

\* The handler goes on to position pc, having called the collaborator
\* `what` ("none": no call).
Step(i, pc, what) ==
  /\ pcL' = [pcL EXCEPT ![i] = pc]
  /\ calls' = IF what = "none" THEN calls
              ELSE [calls EXCEPT ![i][what] = @ + 1]
  /\ UNCHANGED <<pcW, analysis, packet>>
  /\ HandlerFrame

\* handle_packet_captured and handle_packet return (app.py:507,
\* network_monitor.py:213): the locals of the observation are gone and the
\* loop takes its next round.
Back(i) ==
  /\ pcL' = [pcL EXCEPT ![i] = "loop"]
  /\ pcW' = [pcW EXCEPT ![i] = "idle"]
  /\ analysis' = [analysis EXCEPT ![i] = NoAnalysis]
  /\ packet' = [packet EXCEPT ![i] = NoPacket]
  /\ calls' = [calls EXCEPT ![i] = NoCalls]
  /\ HandlerFrame

HasRecord_Always(a) == TRUE

\* app.py:473  if analysis['isThreat'] and analysis['threat']
HasRecord(a) == a.isThreat /\ a.threat # "none"

NeedsAlert_CriticalOnly(a) == a.severity = "Critical"

\* app.py:483  severity in ['Critical', 'High']
NeedsAlert(a) == a.severity \in {"Critical", "High"}

LearnsFrom_AtLeast(a) == a.confidence >= LearnAbove

\* app.py:503 and threat_detector.py:523  confidence > 0.9
LearnsFrom(a) == a.confidence > LearnAbove

\* app.py:473-477: no record, the handler returns; otherwise the counters
\* of system_status are updated and the threat is saved next.
HandlerCheck(i) ==
  /\ pcL[i] = "hp_analyze" /\ pcW[i] = "returned"
  /\ IF HasRecord(analysis[i])
       THEN Step(i, "hp_save", "none")
       ELSE Back(i)
  /\ UNCHANGED <<threats, alerts, training_data, email_queue>>

\* app.py:480 and database.py:132-161: db.save_threat inserts the record, or
\* logs the exception of the insert and returns None.
SaveThreat(i) ==
  /\ pcL[i] = "hp_save" /\ Answers
  /\ Step(i, IF NeedsAlert(analysis[i]) THEN "hp_alert" ELSE "hp_learn",
          "save_threat")
  /\ threats' = IF Inserted THEN threats \cup {packet[i].id} ELSE threats
  /\ UNCHANGED <<alerts, training_data, email_queue>>

\* app.py:484 and database.py:192-208: db.create_alert, likewise.
CreateAlert(i) ==
  /\ pcL[i] = "hp_alert" /\ Answers
  /\ Step(i, "hp_mail", "create_alert")
  /\ alerts' = IF Inserted THEN alerts \cup {packet[i].id} ELSE alerts
  /\ UNCHANGED <<threats, training_data, email_queue>>

\* What can happen inside send_threat_alert (email_service.py:124-160).
MailOutcomes == {"queued", "unconfigured", "no_users", "exception"}

SendThreatAlert_RollsBack(i) ==
  /\ pcL[i] = "hp_mail"
  /\ \E outcome \in MailOutcomes :
       /\ outcome # "unconfigured" => Answers
       /\ outcome \in {"queued", "no_users"} => store = "up"
       /\ Step(i, IF outcome = "queued" THEN "hp_mark" ELSE "hp_learn",
               "send_threat_alert")
       /\ email_queue' = IF outcome = "queued"
                           THEN email_queue + 1 ELSE email_queue
       /\ alerts' = IF outcome = "queued"
                      THEN alerts ELSE alerts \ {packet[i].id}
  /\ UNCHANGED <<threats, training_data>>

\* app.py:487-489 and email_service.py:124-160: send_threat_alert returns
\* False when the service is not configured, when no user wants the alert
\* and when anything raises; otherwise it queues the e-mails and returns
\* True.  The users are read from the store.
SendThreatAlert(i) ==
  /\ pcL[i] = "hp_mail"
  /\ \E outcome \in MailOutcomes :
       /\ outcome # "unconfigured" => Answers
       /\ outcome \in {"queued", "no_users"} => store = "up"
       /\ Step(i, IF outcome = "queued" THEN "hp_mark" ELSE "hp_learn",
               "send_threat_alert")
       /\ email_queue' = IF outcome = "queued"
                           THEN email_queue + 1 ELSE email_queue
  /\ UNCHANGED <<threats, alerts, training_data>>

\* app.py:489 and database.py:225-230: db.mark_alert_email_sent
MarkEmailSent(i) ==
  /\ pcL[i] = "hp_mark" /\ Answers
  /\ Step(i, "hp_learn", "mark_alert_email_sent")
  /\ UNCHANGED <<threats, alerts, training_data, email_queue>>

\* app.py:491-507: the socketio emits (an exception there ends the handler
\* at line 506) and the confidence test before learn_from_detection.
LearnCheck(i) ==
  /\ pcL[i] = "hp_learn"
  /\ \E emitted \in BOOLEAN :
       IF emitted /\ LearnsFrom(analysis[i])
         THEN Step(i, "lf_insert", "none")
         ELSE Back(i)
  /\ UNCHANGED <<threats, alerts, training_data, email_queue>>

\* The training sample of threat_detector.py:528-541 and the record of
\* database.py:239-253.
TrainingSample(i, source) ==
  [label |-> analysis[i].classification, source |-> source]

\* threat_detector.py:520-551 and database.py:234-259: learn_from_detection
\* builds the sample and calls db.save_training_data(sample,
\* source='live_detection') in the calling thread; every exception is logged.
LearnInsert(i) ==
  /\ pcL[i] = "lf_insert" /\ Answers
  /\ Back(i)
  /\ training_data' =
       IF Inserted
         THEN training_data \cup {TrainingSample(i, "live_detection")}
         ELSE training_data
  /\ UNCHANGED <<threats, alerts, email_queue>>

\* email_service.py:185-203: the e-mail thread takes the next queued e-mail
\* and sends it; a failure of the SMTP send is logged.
process_emails ==
  /\ email_queue > 0
  /\ email_queue' = email_queue - 1
  /\ UNCHANGED <<calls, threats, alerts, training_data>>
  /\ UNCHANGED <<isTraining, modelTrained, booted, is_monitoring>>
  /\ UNCHANGED <<monVars, loopVars, envVars>>
  /\ UNCHANGED <<detVars, diskVars, trainVars, workVars>>

\* The store starts failing, stops answering, or works again.
StoreChanges ==
  /\ booted
  /\ \E k \in 1..Len(StoreModes) :
       /\ store = StoreModes[k]
       /\ store' = StoreModes[(k % Len(StoreModes)) + 1]
  /\ UNCHANGED <<mailVars, csvVars, scanVars>>
  /\ UNCHANGED <<isTraining, modelTrained, booted, is_monitoring>>
  /\ UNCHANGED <<monVars, loopVars, sinkVars>>
  /\ UNCHANGED <<detVars, diskVars, trainVars, workVars>>

\* One step of handle_packet_captured in the thread of interface i.
HandlerStep(i) ==
  \/ HandlerAnalyze(i)
  \/ HandlerCheck(i)
  \/ SaveThreat(i)
  \/ CreateAlert(i)
  \/ SendThreatAlert(i)
  \/ MarkEmailSent(i)
  \/ LearnCheck(i)
  \/ LearnInsert(i)

\* The steps of thread i that need nothing from outside the program: no
\* new capture line and no answer of the store.
OwnStep(i) ==
  \/ LoopPopen(i)
  \/ LoopCheck(i)
  \/ ReadEof(i)
  \/ Sleep(i)
  \/ Parse(i)
  \/ HandlePacket(i)
  \/ HandlerAnalyze(i)
  \/ HandlerCheck(i)
  \/ LearnCheck(i)
  \/ Terminate(i)

\* ------------------------------------------ the capture path as a whole

\* The application with an artifact on disk and scanning started by
\* request: the threads of the interfaces Workers (their capture processes
\* keep running), the e-mail thread and the store.
PipelineNext ==
  \/ Startup
  \/ StartScanning
  \/ \E i \in Workers : LoopPopen(i)
  \/ \E i \in Workers : LoopCheck(i)
  \/ \E i \in Workers : ReadLine(i, Lines)
  \/ \E i \in Workers : Parse(i)
  \/ \E i \in Workers : HandlePacket(i)
  \/ \E i \in Workers : HandlerStep(i)
  \/ process_emails
  \/ StoreChanges

SpecPipeline == ScanInit /\ [][PipelineNext]_vars

\* The threads take their own steps, and a call of a collaborator returns
\* when the collaborator keeps answering (weak fairness per thread); capture
\* lines arrive and the store answers when they do, not when the program
\* needs them.
PipelineFairness ==
  \A i \in Workers : WF_vars(OwnStep(i)) /\ WF_vars(HandlerStep(i))

SpecPipelineFair == SpecPipeline /\ PipelineFairness

\* Capture lines from which parse_packet_line makes no packet.
NoiseLines == {l \in Lines : parse_packet_line(l, "eth0", 1) = NoPacket}

\* The monitor with all its interfaces and an artifact on disk: scanning
\* started and stopped by request, the interface threads and their capture
\* processes, which may exit; the traffic consists of lines that give no
\* packet.
MonitorNext ==
  \/ Startup
  \/ StartScanning
  \/ StopBegin
  \/ StopJoin
  \/ StopReturn
  \/ StopScanningIdle
  \/ \E i \in interfaces : LoopPopen(i)
  \/ \E i \in interfaces : LoopCheck(i)
  \/ \E i \in interfaces : ReadLine(i, NoiseLines)
  \/ \E i \in interfaces : ReadEof(i)
  \/ \E i \in interfaces : ReadError(i)
  \/ \E i \in interfaces : Sleep(i)
  \/ \E i \in interfaces : Parse(i)
  \/ \E i \in interfaces : Terminate(i)
  \/ \E i \in interfaces : ProcExits(i)

SpecMonitor == ScanInit /\ [][MonitorNext]_vars

MonitorFairness ==
  /\ \A i \in interfaces : WF_vars(OwnStep(i))
  /\ WF_vars(StopJoin)
  /\ WF_vars(StopReturn)

SpecMonitorFair == SpecMonitor /\ MonitorFairness

\* The monitor started again after a stop: every start creates a thread per
\* interface, whether or not the threads of the start before have ended.
\* The capture processes keep running and their lines are blank.
RestartNext ==
  \/ Startup
  \/ StartScanning
  \/ StartScanningAgain
  \/ StopBegin
  \/ StopJoin
  \/ StopReturn
  \/ \E t \in LoopIds : LoopPopen(t)
  \/ \E t \in LoopIds : LoopCheck(t)
  \/ \E t \in LoopIds : ReadLine(t, {LineBlank})
  \/ \E t \in LoopIds : Parse(t)
  \/ \E t \in LoopIds : Terminate(t)

SpecRestart == ScanInit /\ [][RestartNext]_vars

\* ------------------------------- NetworkMonitor alone: the packet buffer

\* network_monitor.py:205  self.packet_buffer.append(packet)
BufferAppend(i) ==
  /\ pcL[i] = "handle"
  /\ packet_buffer' = Append(packet_buffer, packet[i].id)
  /\ pcL' = [pcL EXCEPT ![i] = "trim"]
  /\ UNCHANGED <<proc, line, packet, nlines>>
  /\ UNCHANGED <<isTraining, modelTrained, booted, is_monitoring>>
  /\ UNCHANGED <<monVars, sinkVars, envVars>>
  /\ UNCHANGED <<detVars, diskVars, trainVars, workVars>>

\* network_monitor.py:208-213: pop(0) if the list is longer than
\* buffer_size; no packet handler is set (line 22), so handle_packet returns
\* and the loop takes its next round.
BufferTrim(i) ==
  /\ pcL[i] = "trim"
  /\ packet_buffer' = IF Len(packet_buffer) > buffer_size
                        THEN Tail(packet_buffer) ELSE packet_buffer
  /\ pcL' = [pcL EXCEPT ![i] = "loop"]
  /\ packet' = [packet EXCEPT ![i] = NoPacket]
  /\ UNCHANGED <<proc, line, nlines>>
  /\ UNCHANGED <<isTraining, modelTrained, booted, is_monitoring>>
  /\ UNCHANGED <<monVars, sinkVars, envVars>>
  /\ UNCHANGED <<detVars, diskVars, trainVars, workVars>>

\* The packets captured before: n of them, numbered below 1 in arrival
\* order.
Earlier(n) == [k \in 1..n |-> k - n]

\* A NetworkMonitor without packet handler whose start_monitoring has
\* returned: both threads are about to start their capture process, and
\* packet_buffer is empty, one short of buffer_size, or full.
BufferInit ==
  /\ DetectorInit /\ threat_threshold = DefaultThreshold
  /\ diskModel = [exists |-> FALSE, obj |-> NoObj]
  /\ diskScaler = [exists |-> FALSE, obj |-> NoObj]
  /\ diskMeta = NoMeta
  /\ ThreadsInit
  /\ isTraining = FALSE /\ modelTrained = FALSE /\ booted = FALSE
  /\ is_monitoring = TRUE
  /\ monitor_threads = interfaceList
  /\ startResult = "started"
  /\ pcStop = "idle" /\ toJoin = <<>>
  /\ pcL = [t \in LoopIds |-> IF t \in interfaces THEN "spawned" ELSE "none"]
  /\ proc = [i \in LoopIds |-> "none"]
  /\ line = [i \in LoopIds |-> NoLine]
  /\ packet = [i \in LoopIds |-> NoPacket]
  /\ packet_buffer \in
       {Earlier(0), Earlier(buffer_size - 1), Earlier(buffer_size)}
  /\ nlines = 0
  /\ calls = [i \in interfaces |-> NoCalls]
  /\ threats = {} /\ alerts = {} /\ training_data = {}
  /\ email_queue = 0 /\ store = "up"
  /\ MailInit(FALSE)
  /\ NoUpload
  /\ isScanning = FALSE

BufferNext ==
  \/ \E i \in interfaces : LoopPopen(i)
  \/ \E i \in interfaces : LoopCheck(i)
  \/ \E i \in interfaces : ReadLine(i, Lines)
  \/ \E i \in interfaces : Parse(i)
  \/ \E i \in interfaces : BufferAppend(i)
  \/ \E i \in interfaces : BufferTrim(i)

SpecBuffer == BufferInit /\ [][BufferNext]_vars

\* --------------------------------------------------- EmailService alone

\* What a step of the EmailService leaves alone.
MailFrame ==
  /\ UNCHANGED <<calls, threats, alerts, training_data, store, csvVars>>
  /\ UNCHANGED scanVars
  /\ UNCHANGED <<isTraining, modelTrained, booted, is_monitoring>>
  /\ UNCHANGED <<monVars, loopVars>>
  /\ UNCHANGED <<detVars, diskVars, trainVars, workVars>>

\* The threads of process_emails that have not returned.
Consumers == {t \in 1..MaxConsumers : pcE[t] \in {"check", "get", "send"}}

\* email_service.py:178-208: start_email_processor returns at once if
\* is_processing is set; otherwise it sets the flag and starts a thread.
start_email_processor ==
  IF is_processing
    THEN UNCHANGED <<is_processing, pcE>>
    ELSE /\ is_processing' = TRUE
         /\ \E t \in 1..MaxConsumers :
              /\ pcE[t] = "none"
              /\ \A u \in 1..(t - 1) : pcE[u] # "none"
              /\ pcE' = [pcE EXCEPT ![t] = "check"]

\* A direct call of start_email_processor.
CallStartProcessor ==
  /\ start_email_processor
  /\ UNCHANGED <<is_configured_flag, email_queue>>
  /\ MailFrame

\* email_service.py:42-65: configure; ok is the outcome of
\* test_smtp_connection.
configure ==
  /\ \E ok \in BOOLEAN :
       IF ok
         THEN /\ is_configured_flag' = TRUE
              /\ start_email_processor
         ELSE UNCHANGED <<is_configured_flag, is_processing, pcE>>
  /\ UNCHANGED email_queue
  /\ MailFrame

\* email_service.py:544-547
cleanup ==
  /\ is_processing' = FALSE
  /\ UNCHANGED <<is_configured_flag, pcE, email_queue>>
  /\ MailFrame

\* email_service.py:124-160: send_threat_alert of a configured service with
\* one recipient: Queue.put on the unbounded queue.
QueueAlert ==
  /\ is_configured_flag /\ email_queue < MaxQueue
  /\ email_queue' = email_queue + 1
  /\ UNCHANGED mailVars
  /\ MailFrame

\* email_service.py:186  while self.is_processing
ConsumerCheck(t) ==
  /\ pcE[t] = "check"
  /\ pcE' = [pcE EXCEPT ![t] = IF is_processing THEN "get" ELSE "done"]
  /\ UNCHANGED <<is_configured_flag, is_processing, email_queue>>
  /\ MailFrame

\* email_service.py:189 and 200-201: email_queue.get(timeout=1) takes an
\* e-mail, or raises queue.Empty after a second.
ConsumerGet(t) ==
  /\ pcE[t] = "get"
  /\ IF email_queue > 0
       THEN /\ email_queue' = email_queue - 1
            /\ pcE' = [pcE EXCEPT ![t] = "send"]
       ELSE /\ UNCHANGED email_queue
            /\ pcE' = [pcE EXCEPT ![t] = "check"]
  /\ UNCHANGED <<is_configured_flag, is_processing>>
  /\ MailFrame

\* email_service.py:192-203: send_email, task_done and the short sleep; an
\* exception is logged and the loop goes on.
ConsumerSend(t) ==
  /\ pcE[t] = "send"
  /\ pcE' = [pcE EXCEPT ![t] = "check"]
  /\ UNCHANGED <<is_configured_flag, is_processing, email_queue>>
  /\ MailFrame

\* An EmailService after its constructor, with the artifact and monitor
\* untouched.
EmailInit ==
  /\ DetectorInit /\ threat_threshold = DefaultThreshold
  /\ diskModel = [exists |-> FALSE, obj |-> NoObj]
  /\ diskScaler = [exists |-> FALSE, obj |-> NoObj]
  /\ diskMeta = NoMeta
  /\ ThreadsInit
  /\ isTraining = FALSE /\ modelTrained = FALSE /\ booted = FALSE
  /\ is_monitoring = FALSE
  /\ monitor_threads = <<>> /\ startResult = "none"
  /\ pcStop = "idle" /\ toJoin = <<>>
  /\ pcL = [i \in LoopIds |-> "none"]
  /\ proc = [i \in LoopIds |-> "none"]
  /\ line = [i \in LoopIds |-> NoLine]
  /\ packet = [i \in LoopIds |-> NoPacket]
  /\ packet_buffer = <<>> /\ nlines = 0
  /\ calls = [i \in interfaces |-> NoCalls]
  /\ threats = {} /\ alerts = {} /\ training_data = {}
  /\ email_queue = 0 /\ store = "up"
  /\ \E configured \in BOOLEAN : MailInit(configured)
  /\ NoUpload
  /\ isScanning = FALSE

EmailNext ==
  \/ configure
  \/ CallStartProcessor
  \/ cleanup
  \/ QueueAlert
  \/ \E t \in 1..MaxConsumers : ConsumerCheck(t)
  \/ \E t \in 1..MaxConsumers : ConsumerGet(t)
  \/ \E t \in 1..MaxConsumers : ConsumerSend(t)

SpecEmail == EmailInit /\ [][EmailNext]_vars

\* --------------------------------- ThreatDetector.process_csv_file alone

\* A ThreatDetector after its constructor and a file to process.
CsvInit ==
  /\ DetectorInit /\ threat_threshold = DefaultThreshold
  /\ diskModel = [exists |-> FALSE, obj |-> NoObj]
  /\ diskScaler = [exists |-> FALSE, obj |-> NoObj]
  /\ diskMeta = NoMeta
  /\ ThreadsInit
  /\ isTraining = FALSE /\ modelTrained = FALSE /\ booted = FALSE
  /\ is_monitoring = FALSE
  /\ monitor_threads = <<>> /\ startResult = "none"
  /\ pcStop = "idle" /\ toJoin = <<>>
  /\ pcL = [i \in LoopIds |-> "none"]
  /\ proc = [i \in LoopIds |-> "none"]
  /\ line = [i \in LoopIds |-> NoLine]
  /\ packet = [i \in LoopIds |-> NoPacket]
  /\ packet_buffer = <<>> /\ nlines = 0
  /\ calls = [i \in interfaces |-> NoCalls]
  /\ threats = {} /\ alerts = {} /\ training_data = {}
  /\ email_queue = 0 /\ store = "up"
  /\ MailInit(FALSE)
  /\ csv_file \in CsvFiles
  /\ csv_result = NotCalled
  /\ isScanning = FALSE

\* threat_detector.py:137-187: the call of process_csv_file on the file.
CallProcessCsv ==
  /\ csv_result = NotCalled
  /\ csv_result' = process_csv_file(csv_file)
  /\ UNCHANGED <<csv_file, store, mailVars, scanVars>>
  /\ UNCHANGED <<isTraining, modelTrained, booted, is_monitoring>>
  /\ UNCHANGED <<monVars, loopVars, sinkVars>>
  /\ UNCHANGED <<detVars, diskVars, trainVars, workVars>>

SpecCsv == CsvInit /\ [][CallProcessCsv]_vars

\* ---------------------------------------------- /api/model/retrain alone
\* Retrain requests only, possibly overlapping, with their background
\* threads: every train_model call is the one of retrain_in_background.
RetrainNext ==
  \/ Startup
  \/ \E t \in Trainers : ReqRetrainCheck(t)
  \/ \E t \in Trainers : ReqRetrainFetch(t)
  \/ \E t \in Trainers : ReqRetrainStart(t)
  \/ \E t \in Trainers : ReqRetrainStartError(t)
  \/ \E t \in Trainers : TrainStep(t)
  \/ \E t \in Trainers : BackgroundEnd(t)

SpecRetrain == Init /\ [][RetrainNext]_vars

\* ================================================================ claims

Last(seq) == seq[Len(seq)]

InMemoryKept(t) ==
  /\ model = before[t].model
  /\ scaler = before[t].scaler
  /\ model_version = before[t].model_version
  /\ total_samples_trained = before[t].total_samples_trained
  /\ training_history = before[t].training_history

FilesKept(t) ==
  /\ diskModel = before[t].diskModel
  /\ diskScaler = before[t].diskScaler
  /\ diskMeta = before[t].diskMeta

\* C1: an analyze_packet call that has predicted (threat_detector.py:398) has
\* scaled with the scaler and predicted with the model of one and the same
\* training run.
C1_MatchedSnapshot ==
  \A w \in Workers : pcW[w] = "a_proba" => usedScaler[w] = usedModel[w]

\* C2: at most one background training run is active at any time.
C2_SingleRun == Cardinality(ActiveRuns) <= 1

\* C3: when train_model has raised after the sample-count check passed, the
\* in-memory artifact (model, scaler, version, total, history) is the one it
\* had when train_model was called.
C3_FailedRunKeepsArtifact ==
  \A t \in Trainers :
    (pcT[t] = "tm_raised" /\ batch[t].n >= MinSamples) => InMemoryKept(t)

\* C4: when train_model has raised for fewer than 10 samples, the in-memory
\* artifact and the files are the ones it had when train_model was called.
C4_SmallBatchKeepsArtifact ==
  \A t \in Trainers :
    (pcT[t] = "tm_raised" /\ batch[t].n < MinSamples)
      => (InMemoryKept(t) /\ FilesKept(t))

\* C5: the step in which train_model returns success leaves model_version
\* one above its value when the call began, and training_history one entry
\* longer than at the call, the new entry carrying the new model_version and
\* the number of samples supplied.
C5_SuccessBumpsByOne ==
  [][\A t \in Trainers :
       (pcT[t] = "tm_save" /\ pcT'[t] = "tm_returned")
         => /\ model_version' = before[t].model_version + 1
            /\ result'[t].version = model_version'
            /\ Len(training_history') = Len(before[t].training_history) + 1
            /\ Last(training_history').version = model_version'
            /\ Last(training_history').samples = batch[t].n]_vars

\* C6: no step of train_model, save_model or load_model decreases
\* model_version.
C6_VersionNeverDecreases == [][model_version' >= model_version]_vars

\* C7: when train_model has returned success, the model blob, the scaler
\* blob and the metadata of the returned version are on storage.
C7_SuccessMeansPersisted ==
  \A t \in Trainers :
    (pcT[t] = "tm_returned" /\ result[t].success)
      => /\ diskModel = [exists |-> TRUE, obj |-> model]
         /\ diskScaler = [exists |-> TRUE, obj |-> scaler]
         /\ diskMeta.exists
         /\ diskMeta.version = result[t].version

\* No artifact was found at startup and no train_model call has returned
\* success yet.
NoRunCompleted ==
  booted /\ ~modelTrained /\ \A t \in Trainers : pcT[t] # "tm_returned"

\* No artifact was found at startup and no train_model call has reached its
\* statistics update (threat_detector.py:346-348) yet.
NoRunPublished ==
  booted /\ ~modelTrained
    /\ \A t \in Trainers : pcT[t] \notin {"tm_save", "tm_returned"}

Classified(w) ==
  pcW[w] = "returned" /\ analysis[w].classification \in Labels

\* C9: a classification that hit no exception reports isThreat exactly when
\* the label is not 'Normal' and the confidence is strictly above the
\* configured threshold.
C9_ThreatIffAboveThreshold ==
  \A w \in Workers :
    Classified(w)
      => (analysis[w].isThreat
            <=> (analysis[w].classification # "Normal"
                 /\ analysis[w].confidence > threat_threshold))

\* C9 witness: a threat label whose confidence equals the threshold is
\* reported as no threat.
C9_Witness ==
  \E w \in Workers :
    /\ Classified(w)
    /\ analysis[w].classification # "Normal"
    /\ analysis[w].confidence = threat_threshold
    /\ ~analysis[w].isThreat

\* C10: the severity of a ThreatRecord follows the table with strict lower
\* bounds, whatever the label and the threshold.
C10_SeverityTable ==
  \A w \in Workers :
    analysis[w].threat = "record"
      => LET c == analysis[w].confidence
             sev == analysis[w].severity
         IN /\ (c > CriticalAbove) => sev = "Critical"
            /\ (c > HighAbove /\ c <= CriticalAbove) => sev = "High"
            /\ (c > MediumAbove /\ c <= HighAbove) => sev = "Medium"
            /\ (c <= MediumAbove) => sev = "Low"

\* C10 witness: a ThreatRecord with confidence exactly 0.9 has severity High.
C10_Witness ==
  \E w \in Workers :
    /\ analysis[w].threat = "record"
    /\ analysis[w].confidence = CriticalAbove
    /\ analysis[w].severity = "High"

\* A step of analyze_packet on interface i is about to raise inside the try
\* block: transform on a scaler that is not fitted, predict or predict_proba
\* on a model that is not fitted, or an index outside the probabilities.
AnalyzeRaises(i) ==
  \/ pcW[i] = "a_scale" /\ scaler.st # "fitted"
  \/ pcW[i] = "a_predict" /\ model.st # "fitted"
  \/ pcW[i] = "a_proba"
       /\ (model.st # "fitted" \/ prediction[i] >= Cardinality(model.codes))

SinksKept == <<threats, alerts, training_data, email_queue>>' =
             <<threats, alerts, training_data, email_queue>>

\* C11: a step of analyze_packet that raises ends the call with
\* classification 'Error', confidence 0, isThreat False and no record, still
\* inside handle_packet_captured; the handler then returns to the capture
\* loop without calling a collaborator.
C11_ExceptionGivesNeutralResult ==
  [][\A i \in interfaces :
       /\ (pcL[i] = "hp_analyze" /\ AnalyzeRaises(i) /\ pcW'[i] # pcW[i])
            => /\ pcW'[i] = "returned"
               /\ pcL'[i] = "hp_analyze"
               /\ analysis'[i].classification = "Error"
               /\ analysis'[i].confidence = 0
               /\ ~analysis'[i].isThreat
               /\ analysis'[i].threat = "none"
       /\ (pcL[i] = "hp_analyze" /\ pcW[i] = "returned"
             /\ analysis[i].classification = "Error" /\ pcL'[i] # pcL[i])
            => (pcL'[i] = "loop" /\ SinksKept)]_vars

\* C11 witness: an observation whose analysis raised has been answered with
\* 'Error' and the thread is still in its handler, after an earlier line
\* had already been processed.
C11_Witness ==
  \E i \in interfaces :
    /\ pcL[i] = "hp_analyze" /\ pcW[i] = "returned"
    /\ analysis[i].classification = "Error"
    /\ nlines > 1

\* The positions of handle_packet_captured.
HandlerPcs ==
  {"hp_analyze", "hp_save", "hp_alert", "hp_mail", "hp_mark", "hp_learn",
   "lf_insert"}

\* The handler of interface i returns in this step.
HandlerReturns(i) == pcL[i] \in HandlerPcs /\ pcL'[i] = "loop"

\* C12: when handle_packet_captured returns, it has called db.save_threat
\* once if analyze_packet produced a ThreatRecord for the observation and
\* not at all otherwise; it never calls it twice for one observation.
C12_SaveThreatOncePerRecord ==
  [][\A i \in interfaces :
       /\ calls'[i].save_threat <= 1
       /\ HandlerReturns(i)
            => calls[i].save_threat =
                 (IF analysis[i].threat = "record" THEN 1 ELSE 0)]_vars

\* C12 witness: a ThreatRecord was produced and db.save_threat has been
\* called for it.
C12_Witness ==
  \E i \in interfaces :
    /\ pcL[i] = "hp_learn" /\ analysis[i].threat = "record"
    /\ calls[i].save_threat = 1
    /\ packet[i].id \in threats

\* C13: when handle_packet_captured returns for an observation with a
\* ThreatRecord, it has called db.create_alert once and
\* email_service.send_threat_alert once if the severity of the record is
\* Critical or High, and neither of them if it is Medium or Low.
C13_AlertAndMailOncePerSevereThreat ==
  [][\A i \in interfaces :
       /\ calls'[i].create_alert <= 1 /\ calls'[i].send_threat_alert <= 1
       /\ (HandlerReturns(i) /\ analysis[i].threat = "record")
            => /\ analysis[i].severity \in {"Critical", "High", "Medium", "Low"}
               /\ LET n == IF analysis[i].severity \in {"Critical", "High"}
                             THEN 1 ELSE 0
                  IN  /\ calls[i].create_alert = n
                      /\ calls[i].send_threat_alert = n]_vars

\* C13 witness: a record of severity High for which both requests were made.
C13_Witness ==
  \E i \in interfaces :
    /\ pcL[i] = "hp_learn" /\ analysis[i].threat = "record"
    /\ analysis[i].severity = "High"
    /\ calls[i].create_alert = 1 /\ calls[i].send_threat_alert = 1

\* A record of severity Medium or Low reaches the end of the handler.
C13_WitnessMild ==
  \E i \in interfaces :
    /\ pcL[i] = "hp_learn" /\ analysis[i].threat = "record"
    /\ analysis[i].severity \in {"Medium", "Low"}

\* send_threat_alert returns False to the handler of interface i in this
\* step: not configured, no recipient, or an exception.
DispatchFails(i) ==
  /\ pcL[i] = "hp_mail" /\ pcL'[i] # "hp_mail"
  /\ email_queue' = email_queue

\* The handler of interface i has got False from send_threat_alert and has
\* not returned yet.
DispatchFailed(i) ==
  /\ pcL[i] \in {"hp_learn", "lf_insert"}
  /\ calls[i].send_threat_alert = 1 /\ calls[i].mark_alert_email_sent = 0

HandsSample(i) == pcL[i] = "lf_insert" /\ pcL'[i] # "lf_insert"

\* C15: a sample is handed to the store with provenance 'live_detection'
\* only for an observation with a ThreatRecord and a confidence strictly
\* above 0.9; its label is the classification of that observation and is
\* none of 'Normal', 'Unknown', 'Error'; and the stored training data change
\* in no other step.
C15_LiveSamplesOnlyFromConfidentThreats ==
  [][/\ \A i \in interfaces :
          HandsSample(i)
            => /\ analysis[i].isThreat /\ analysis[i].threat = "record"
               /\ analysis[i].confidence > 900
               /\ analysis[i].classification \notin {"Normal", "Unknown", "Error"}
               /\ training_data' \subseteq
                    training_data \cup
                      {[label |-> analysis[i].classification,
                        source |-> "live_detection"]}
     /\ training_data' # training_data
          => \E i \in interfaces : HandsSample(i)]_vars

\* C15 witness: a sample of a live detection is in the store.
C15_Witness ==
  \E s \in training_data : s.source = "live_detection" /\ s.label = "DDoS"

\* C16: a worker that has entered learn_from_detection finishes the
\* observation and is back in its capture loop, whatever the store does.
C16_LearnNeverWaitsForStore ==
  \A i \in Workers : (pcL[i] = "lf_insert") ~> (pcL[i] = "loop")

\* C16, the part that holds: learn_from_detection ends with the return of
\* the handler to the capture loop and with nothing else (no exception
\* leaves it).
C16_LearnNeverRaises ==
  [][\A i \in interfaces :
       HandsSample(i) => (pcL'[i] = "loop" /\ UNCHANGED <<threats, alerts>>)]_vars

\* The worker is inside db.save_training_data while the store gives no
\* answer.
C16_WaitingSeen ==
  \E i \in interfaces : pcL[i] = "lf_insert" /\ ~Answers

\* C17: a call of start_monitoring that finds the capture tool unavailable
\* leaves is_monitoring False, creates no interface thread and leaves
\* monitor_threads as it was.
C17_UnavailableToolNoTransition ==
  [][(startResult' = "unavailable" /\ startResult # "unavailable")
       => /\ ~is_monitoring /\ ~is_monitoring'
          /\ monitor_threads' = monitor_threads
          /\ pcL' = pcL /\ proc' = proc]_vars

\* C17 witness: start_monitoring has returned for want of the capture tool,
\* after an earlier start and stop.
C17_Witness ==
  /\ startResult = "unavailable" /\ ~is_monitoring /\ monitor_threads = <<>>
  /\ \E i \in interfaces : pcL[i] = "done"

\* The thread of interface i runs.
LoopAlive(i) == pcL[i] \notin {"none", "done"}

\* C18: once the capture process of an interface has exited while
\* monitoring is on, the loop of that interface terminates, if no stop is
\* requested.
C18_LoopEndsAfterProcessExit ==
  \A i \in interfaces :
    (is_monitoring /\ proc[i] = "exited" /\ LoopAlive(i))
      ~> (pcL[i] = "done" \/ ~is_monitoring)

\* C18, the part that holds: the exit of the capture process of one
\* interface moves no thread, and only start_monitoring creates threads.
C18_OthersKeepRunningNoRestart ==
  [][/\ \A i \in interfaces :
          (proc[i] = "running" /\ proc'[i] = "exited") => pcL' = pcL
     /\ (\E i \in interfaces : pcL'[i] = "spawned" /\ pcL[i] # "spawned")
          => startResult' = "started"]_vars

\* The loop of an interface whose capture process has exited is in its
\* sleep while monitoring is on.
C18_SleepingAfterExitSeen ==
  \E i \in interfaces :
    is_monitoring /\ proc[i] = "exited" /\ pcL[i] = "sleep"

\* C19: after stop_monitoring has cleared the flag, every interface loop
\* that is running terminates, provided monitoring is not started again.
C19_LoopsEndAfterStop ==
  \A i \in interfaces :
    (pcStop = "joining" /\ LoopAlive(i)) ~> (~LoopAlive(i) \/ is_monitoring)

\* C19, the part that holds: stop_monitoring returns, and when it does
\* is_monitoring is False and monitor_threads is empty.
C19_StopReturns ==
  /\ (pcStop = "joining") ~> (pcStop = "idle")
  /\ [][(pcStop = "joining" /\ pcStop' = "idle")
          => (~is_monitoring' /\ monitor_threads' = <<>>)]_vars

\* stop_monitoring has returned while a loop is still blocked in readline.
C19_LingeringLoopSeen ==
  /\ pcStop = "idle" /\ ~is_monitoring /\ monitor_threads = <<>>
  /\ \E i \in interfaces : pcL[i] = "readline" /\ proc[i] = "running"

\* A part is <ip>.<port>: four numerals and a fifth, separated by '.'.
IsHostPort(part) ==
  /\ Len(part.pieces) = 5
  /\ \A k \in 1..5 : part.pieces[k].digit

\* The line has the shape
\*   IP <srcIP>.<srcPort> > <dstIP>.<dstPort>: <PROTO> ... length <n>
MatchesShape(l) ==
  /\ Len(l) >= 7
  /\ l[1] = Word("IP") /\ l[3] = Word(">")
  /\ IsHostPort(l[2]) /\ ~l[2].colon
  /\ IsHostPort(l[4]) /\ l[4].colon
  /\ Len(l[5].pieces) = 1 /\ ~l[5].pieces[1].digit
  /\ \E k \in 6..(Len(l) - 1) :
       /\ l[k] = Word("length")
       /\ Len(l[k + 1].pieces) = 1 /\ l[k + 1].pieces[1].digit

\* C20: a capture line that does not have the shape gives no observation:
\* parse_packet_line returns None, packet_buffer stays as it is, the handler
\* is not entered and the loop takes its next round.
C20_NonMatchingLineDropped ==
  [][\A i \in interfaces :
       (pcL[i] = "parse" /\ ~MatchesShape(line[i]) /\ pcL'[i] # "parse")
         => /\ packet'[i] = NoPacket
            /\ packet_buffer' = packet_buffer
            /\ pcL'[i] = "loop"]_vars

\* C20, the part that holds: a line for which parse_packet_line returns
\* None leaves packet_buffer alone and sends the loop to its next round, and
\* every line of the shape gives a packet.
C20_NoneLeavesNoTrace ==
  [][\A i \in interfaces :
       (pcL[i] = "parse" /\ pcL'[i] # "parse")
         => /\ packet'[i] = NoPacket
                 => (pcL'[i] = "loop" /\ packet_buffer' = packet_buffer)
            /\ MatchesShape(line[i]) => packet'[i] # NoPacket]_vars

\* A line without ports has gone through handle_packet into packet_buffer.
C20_PortlessObservationSeen ==
  \E i \in interfaces :
    /\ pcL[i] = "hp_analyze" /\ packet[i].rawLine = LineIcmp
    /\ packet[i].sourceIP = <<Num(10), Num(0), Num(0)>> /\ packet[i].sourcePort = 1
    /\ packet_buffer # <<>>

\* No thread is between the append and the length test of handle_packet.
NoHandlePacketUnderWay == \A i \in interfaces : pcL[i] # "trim"

\* C21: packet_buffer never holds more than buffer_size entries.
C21_BufferNeverAboveCapacity == Len(packet_buffer) <= buffer_size

\* C21, the part that holds: while no handle_packet call is between its
\* append and its length test the buffer holds at most buffer_size entries;
\* it never holds more than one entry too many per thread; and a step
\* changes it only by appending at the end or by removing the oldest entry.
C21_BoundedWhenQuiet ==
  /\ [](NoHandlePacketUnderWay => Len(packet_buffer) <= buffer_size)
  /\ [](Len(packet_buffer) <= buffer_size + Cardinality(interfaces))
  /\ [][\/ \E i \in interfaces :
             packet_buffer' = Append(packet_buffer, packet[i].id)
        \/ (Len(packet_buffer) > buffer_size
              /\ packet_buffer' = Tail(packet_buffer))]_packet_buffer

\* Two threads have appended to a full buffer before either tested its
\* length.
C21_TwoAboveSeen == Len(packet_buffer) = buffer_size + 2

\* C22: at most one thread of process_emails consumes email_queue at any
\* time.
C22_SingleConsumer == Cardinality(Consumers) <= 1

\* C22, the part that holds: send_threat_alert of a configured service can
\* always put its e-mail (the queue has no capacity; MaxQueue bounds the
\* model only), and a put changes nothing but the queue.
C22_ProducerNeverBlocks ==
  /\ [](is_configured_flag /\ email_queue < MaxQueue => ENABLED QueueAlert)
  /\ [][email_queue' > email_queue => UNCHANGED mailVars]_vars

\* Two threads have each taken an e-mail from the queue and are sending.
C22_TwoSendingSeen ==
  Cardinality({t \in 1..MaxConsumers : pcE[t] = "send"}) = 2

\* The rows of the file whose threat_type is one of the seven labels.
RowsInLabelSet ==
  SelectSeq(csv_file.rows,
            LAMBDA row : row.threat_type \in
              {"Normal", "Malware", "DDoS", "Intrusion", "Phishing",
               "Port_Scan", "Brute_Force"})

\* C23: process_csv_file on a file with all required columns raises nothing
\* and returns, in the order of the file, exactly one sample for each row
\* whose threat_type is in the label set, with that row and its label, and
\* none for any other row.
C23_OneSamplePerValidRow ==
  (csv_result # NotCalled /\ ~csv_file.missing)
    => /\ ~csv_result.raised
       /\ Len(csv_result.samples) = Len(RowsInLabelSet)
       /\ \A k \in 1..Len(RowsInLabelSet) :
            /\ csv_result.samples[k].raw_data = RowsInLabelSet[k]
            /\ csv_result.samples[k].label = RowsInLabelSet[k].threat_type

\* C23 witness: a file with an invalid row before a valid one whose cells
\* hold text has been processed, and the valid row is the one sample.
C23_Witness ==
  /\ csv_result # NotCalled /\ ~csv_file.missing
  /\ Len(csv_file.rows) = 2
  /\ csv_file.rows[1].threat_type = "Foo"
  /\ csv_file.rows[2] = [threat_type |-> "DDoS", cells |-> "text"]
  /\ Len(csv_result.samples) = 1

\* analyze_packet of interface i returns in this step, with a fitted model
\* whose prediction it has.
ReturnsPrediction(i) ==
  pcW[i] = "a_proba" /\ pcW'[i] = "returned" /\ model.st = "fitted"

\* The returned analysis has the label of the prediction under the 7-label
\* encoding and, as confidence, a probability the model gives to its
\* predicted (arg-max) class.
OfPredictedClass(i) ==
  /\ analysis'[i].classification = DecodeLabel(prediction[i])
  /\ analysis'[i].confidence \in CaptureConfLevels

\* C24: an analysis returned by a trained detector carries the label of the
\* model's prediction and the probability of that label, the largest of the
\* distribution.
C24_ConfidenceIsArgMaxProbability ==
  [][\A i \in interfaces : ReturnsPrediction(i) => OfPredictedClass(i)]_vars

\* C24, the part that holds: when the labels of the training batch are the
\* first ones of the encoding (codes 0..k-1), label and confidence are those
\* of the predicted class.
C24_RightForLeadingLabels ==
  [][\A i \in interfaces :
       (ReturnsPrediction(i)
          /\ model.codes = 0..(Cardinality(model.codes) - 1))
         => OfPredictedClass(i)]_vars

\* A model trained on 'DDoS' and 'Normal' predicts 'DDoS' and the analysis
\* reports the probability of 'Normal'.
C24_WrongEntrySeen ==
  \E i \in interfaces :
    /\ pcW[i] = "returned" /\ model.codes = {EncodeLabel("DDoS"), EncodeLabel("Normal")}
    /\ analysis[i].classification = "DDoS"
    /\ analysis[i].confidence < 500

\* C25: system_status['isScanning'] is True only if
\* network_monitor.is_monitoring is True.
C25_ScanningOnlyWhileMonitoring == isScanning => is_monitoring

\* C25, the part that holds: when no stop-scan request is under way and the
\* last start_monitoring did not find the capture tool missing, isScanning
\* implies is_monitoring; and a stop-scan request always ends with both
\* False.
C25_AgreeAfterAvailableStart ==
  /\ [](pcStop = "idle" /\ startResult # "unavailable"
          => (isScanning => is_monitoring))
  /\ [][pcStop = "joining" /\ pcStop' = "idle"
          => (~isScanning' /\ ~is_monitoring')]_vars

\* start-scan has answered success although the capture tool is missing.
C25_ScanningWithoutMonitorSeen ==
  isScanning /\ ~is_monitoring /\ startResult = "unavailable" /\ pcStop = "idle"

\* The thread is inside the while loop of monitor_interface
\* (network_monitor.py:114-126) and the loop's condition holds.
Looping(t) == pcL[t] \in {"loop", "readline", "parse"} /\ is_monitoring

\* C26: after any sequence of start_monitoring and stop_monitoring calls at
\* most one monitor_interface loop per interface is live: a loop that
\* outlived the join timeout of a stop is not revived by a later start.
C26_OneLiveLoopPerInterface ==
  \A i \in interfaces : ~(Looping(i) /\ Looping(Second(i)))

\* C26, the part that holds: a start that finds every earlier thread ended
\* leaves one loop per interface.
C26_OneLoopWhenEarlierEnded ==
  [][NoLoopAlive /\ ~is_monitoring /\ is_monitoring'
       => \A i \in interfaces : pcL'[Second(i)] \in {"none", "done"}]_vars

\* Two loops of eth0 are each waiting for a capture line while monitoring.
C26_TwoLoopsReadingSeen ==
  /\ is_monitoring
  /\ pcL["eth0"] = "readline"
  /\ pcL[Second("eth0")] = "readline"

\* db.create_alert is called in the thread of interface i (app.py:484).
CallsCreateAlert(i) == pcL[i] = "hp_alert" /\ pcL'[i] = "hp_mail"

\* C27: every alert that is requested refers to a stored threat:
\* db.create_alert is never called with the None that save_threat returns
\* when its insert failed.
C27_AlertOnlyForStoredThreat ==
  [][\A i \in Workers : CallsCreateAlert(i) => packet[i].id \in threats]_vars

\* C27, the part that holds: an alert is requested only after save_threat
\* was called for the same record, once.
C27_AlertAfterSaveCall ==
  [][\A i \in Workers :
       CallsCreateAlert(i) => calls[i]["save_threat"] = 1]_vars

\* The alert of a record that was not stored has been requested and
\* stored.
C27_AlertWithoutThreatSeen ==
  \E i \in Workers :
    /\ pcL[i] = "hp_mail"
    /\ packet[i].id \notin threats
    /\ packet[i].id \in alerts

\* C28: /api/model/retrain leaves the stored training rows unchanged: the
\* number of rows in the store after the request equals the number before.
C28_RetrainKeepsStoredRows == \A t \in Trainers : saved_rows[t] = 0

\* C28, the part that holds: a retrain request that is refused (a run is
\* under way, or fewer than ten rows are stored) inserts nothing.
C28_RefusedRetrainStoresNothing ==
  [][\A t \in Trainers :
       (pcT[t] \in {"idle", "rejected", "rt_fetch"}
          /\ pcT'[t] \in {"idle", "rejected"})
         => saved_rows'[t] = 0]_vars

\* A retrain run has ended successfully and has inserted every row it had
\* fetched once more.
C28_RowsDoubledSeen ==
  \E t \in Trainers :
    /\ pcT[t] = "tm_returned"
    /\ given[t] = "list"
    /\ saved_rows[t] = batch[t].n
    /\ batch[t].n >= MinSamples

\* A request that has set isTraining is being handled, or its background
\* thread has not ended.
TrainingUnderWay ==
  \E t \in Trainers : pcT[t] = "tr_csv" \/ t \in ActiveRuns

\* C29: after every accepted train or retrain request isTraining returns
\* to False; the flag is never left True with no training run active.
C29_FlagOnlyWhileTraining == isTraining => TrainingUnderWay

\* C29, the part that holds: when the run succeeds, the CSV processing
\* fails or train_model raises, the flag returns to False.
C29_FlagClearsAfterRun == (isTraining /\ TrainingUnderWay) ~> ~isTraining

\* The flag is set and no request or run is left that would clear it.
C29_StuckFlagSeen ==
  /\ isTraining
  /\ \A t \in Trainers : pcT[t] \in {"idle", "rejected"}

RECURSIVE SumSamples(_)
\* The sum of 'samples' over the entries of a training history.
SumSamples(h) == IF h = <<>> THEN 0 ELSE h[1].samples + SumSamples(Tail(h))

\* No train_model call is inside the function.
BetweenCalls == pcT[Caller] \in {"idle", "tm_returned", "tm_raised"}

\* C30: from a fresh ThreatDetector and after any sequence of successful
\* and failed train_model calls, total_samples_trained is the sum of
\* 'samples' over training_history, the 'version' values of the history
\* are strictly increasing, and the last entry's version is model_version
\* when the most recent call succeeded.
C30_HistoryConsistent ==
  BetweenCalls =>
    /\ total_samples_trained = SumSamples(training_history)
    /\ \A j, k \in DOMAIN training_history :
         j < k => training_history[j].version < training_history[k].version
    /\ pcT[Caller] = "tm_returned" =>
         /\ training_history # <<>>
         /\ training_history[Len(training_history)].version = model_version

\* The second of two successful calls has returned: the history has two
\* entries.
C30_Witness ==
  /\ pcT[Caller] = "tm_returned"
  /\ Len(training_history) = 2

\* A successful call after a failed one has returned.
C30_WitnessAfterFailure ==
  /\ pcT[Caller] = "tm_returned"
  /\ Len(training_history) = 1
  /\ model_version = InitialVersion + 2

====
